---- MODULE Spec2Model ----
(***************************************************************************)
(* scim-sanity: the response validator, the HTTP client's 429 retry, the   *)
(* probe orchestrator and the in-memory reference server it is tested on.  *)
(*                                                                         *)
(* JSON values are tagged records [t, v]; a Python None and a JSON null    *)
(* are the same value.  Strings are sequences of tokens: the double quote  *)
(* is a token of its own, every other token holds no quote.  The keys of   *)
(* a JSON object are plain strings.                                        *)
(***************************************************************************)
EXTENDS Integers, Sequences, FiniteSets, TLC

VARIABLES
    opt,                \* run_probe: its arguments
    fault,              \* the fault between client and server in this run
    server_args,        \* MockSCIMServer: the arguments it was built with
    stores,             \* reference server: endpoint -> (id -> resource)
    non_conformances,   \* reference server: its flags and throttle_count
    stale_snapshots,    \* reference server: (endpoint, id) -> resource before the PUT
    uuid,               \* reference server: the next id
    attempts_total,     \* HTTP exchanges so far
    cl,                 \* SCIMClient._request: the call in progress (attempt, sleeps, sent)
    rsp,                \* the response the client returned to the probe, not yet handled
    pc,                 \* run_probe: where it is
    phase_no,           \* run_probe: the phase reached
    idx,                \* the index of the loop of test_discovery and of _cleanup
    lc,                 \* _crud_lifecycle: its locals
    rp,                 \* test_agent_rapid_lifecycle: its locals
    results,            \* run_probe: the ProbeResult list
    created_resources,  \* run_probe: the resources still to clean up
    supported,          \* run_probe: what discover_supported_resources returned
    exit_code,          \* what run_probe returned (-1: nothing yet)
    printed,            \* what run_probe printed: "nothing", "warning" or "report"
    deletes,            \* history: every DELETE the probe sent and its answer
    ever_created,       \* history: everything ever appended to created_resources
    posted,             \* history: every POST answered 2xx with an id (endpoint, id)
    vcall,      \* response validator: the call under test (entry point, arguments)
    vres,       \* response validator: what a strict and a compat validator returned
    sv,         \* payload validator: the calls to make, the instance, the calls made
    srv,        \* reference server under direct requests: the requests, the handler, the answers
    rep,        \* report: the results given to print_results, what it printed
    cx          \* probe command: the command line, run_probe's arguments, the client, what it sent

probe_vars ==
    <<opt, fault, server_args, stores, non_conformances, stale_snapshots, uuid, attempts_total, cl, rsp,
      pc, phase_no, idx, lc, rp, results, created_resources, supported, exit_code, printed,
      deletes, ever_created, posted>>
vvars == <<vcall, vres, sv, cx, srv, rep>>
vars == <<probe_vars, vvars>>

----------------------------------------------------------------------------
(* JSON values *)

JNull == [t |-> "null", v |-> 0]
JStr(s) == [t |-> "str", v |-> s]
JInt(n) == [t |-> "int", v |-> n]
JBool(b) == [t |-> "bool", v |-> b]
JList(s) == [t |-> "list", v |-> s]
JDict(f) == [t |-> "dict", v |-> f]

EmptyDict == JDict(<<>>)

\* Python truthiness of a value
Truthy(x) ==
    CASE x.t = "null" -> FALSE
      [] x.t = "str" -> x.v # <<>>
      [] x.t = "int" -> x.v # 0
      [] x.t = "float" -> TRUE
      [] x.t = "bool" -> x.v
      [] x.t = "list" -> x.v # <<>>
      [] x.t = "dict" -> DOMAIN x.v # {}

\* dict.get(key): None when the key is absent
Get(d, k) == IF k \in DOMAIN d.v THEN d.v[k] ELSE JNull
Has(d, k) == k \in DOMAIN d.v

\* a mapping restricted to some of its keys
Obj(keys, f) == [k \in keys |-> f[k]]

\* a Python str equals a JSON value
EqStr(x, s) == x.t = "str" /\ x.v = s

\* substring test on token sequences: p in s
HasSub(s, p) == \E i \in 0..(Len(s) - Len(p)) : SubSeq(s, i + 1, i + Len(p)) = p

Quote == "\""

\* str.strip('"')
Strip(s) ==
    LET RECURSIVE LStrip(_)
        LStrip(t) == IF t # <<>> /\ Head(t) = Quote THEN LStrip(Tail(t)) ELSE t
        RECURSIVE RStrip(_)
        RStrip(t) == IF t # <<>> /\ t[Len(t)] = Quote THEN RStrip(SubSeq(t, 1, Len(t) - 1)) ELSE t
    IN  RStrip(LStrip(s))

----------------------------------------------------------------------------
(* Schema registry: the URNs and the attributes a server must never return *)

Urn ==
    [User |-> <<"urn:ietf:params:scim:schemas:core:2.0:User">>,
     Group |-> <<"urn:ietf:params:scim:schemas:core:2.0:Group">>,
     Enterprise |-> <<"urn:ietf:params:scim:schemas:extension:enterprise:2.0:User">>,
     Agent |-> <<"urn:ietf:params:scim:schemas:core:2.0:Agent">>,
     AgenticApplication |-> <<"urn:ietf:params:scim:schemas:core:2.0:AgenticApplication">>,
     ListResponse |-> <<"urn:ietf:params:scim:api:messages:2.0:ListResponse">>,
     Error |-> <<"urn:ietf:params:scim:api:messages:2.0:Error">>,
     PatchOp |-> <<"urn:ietf:params:scim:api:messages:2.0:PatchOp">>]

----------------------------------------------------------------------------
(* Response validator *)

FAIL == "fail"
WARN == "warn"

ServerValidationError(message, path, severity) ==
    [message |-> message, path |-> path, severity |-> severity]

\* a finding that is FAIL in both modes
Hard(message, path) == ServerValidationError(message, path, FAIL)

\* faulty variants of _sev, to compare with: no downgrade at all; the downgrade given to the wrong mode
_sev_NeverWarn(strict, is_strict_only) == FAIL
_sev_Inverted(strict, is_strict_only) == IF is_strict_only /\ strict THEN WARN ELSE FAIL

_sev(strict, is_strict_only) == IF is_strict_only /\ ~strict THEN WARN ELSE FAIL

\* faulty variants of _is_valid, to compare with: any finding, WARN included, makes the response invalid
_is_valid_AnyFinding(errors) == errors = <<>>

_is_valid(errors) == ~(\E i \in 1..Len(errors) : errors[i].severity = FAIL)

\* what a validate call gives: a (ok, errors) pair, or an exception
Returned(ok, errors) == [raised |-> FALSE, ok |-> ok, errors |-> errors]
Raised == [raised |-> TRUE, ok |-> FALSE, errors |-> <<>>]

\* headers: a function from header name to value (a token sequence)
_header_value(headers, name) == IF name \in DOMAIN headers THEN headers[name] ELSE <<>>

CtScim == <<"application/", "scim+json">>
CtJson == <<"application/", "json">>

\* the Content-Type check shared by the resource and the list validator
ContentTypeErrors(strict, headers) ==
    LET ct == _header_value(headers, "Content-Type")
    IN IF DOMAIN headers # {} /\ ct # <<>>
       THEN IF HasSub(ct, CtScim) THEN <<>>
            ELSE IF HasSub(ct, CtJson)
                 THEN <<ServerValidationError("content_type", "", _sev(strict, TRUE))>>
                 ELSE <<Hard("content_type_other", "")>>
       ELSE <<>>

RECURSIVE _check_write_only(_, _)
_check_write_only(data, urns) ==
    IF urns = <<>> THEN <<>>
    ELSE LET u == Head(urns)
             \* SCHEMAS.get(urn)
             known == u.t = "str" /\ u.v \in {Urn.User, Urn.Group, Urn.Enterprise, Urn.Agent,
                                               Urn.AgenticApplication}
             \* names of the attributes with returned = never or mutability = writeOnly
             NeverReturned(urn) == IF urn = Urn.User THEN <<"password">> ELSE <<>>
             \* of the registered URNs only the enterprise one starts with the extension prefix
             is_extension == known /\ u.v = Urn.Enterprise
             check_data == IF is_extension
                           THEN (IF Has(data, u.v[1]) THEN data.v[u.v[1]] ELSE EmptyDict)
                           ELSE data
             RECURSIVE AttrErrors(_)
             AttrErrors(names) ==
                 IF names = <<>> THEN <<>>
                 ELSE (IF Has(check_data, Head(names))
                       THEN <<Hard("write_only", Head(names))>> ELSE <<>>)
                      \o AttrErrors(Tail(names))
         IN (IF known /\ check_data.t = "dict"
             THEN AttrErrors(NeverReturned(u.v)) ELSE <<>>)
            \o _check_write_only(data, Tail(urns))

\* faulty variants of _check_resource_type_match, to compare with: every type is a mismatch
_check_resource_type_match_Always(data, expected_type) ==
    <<Hard("resource_type", "meta.resourceType")>>

_check_resource_type_match(data, expected_type) ==
    LET meta == IF Has(data, "meta") THEN data.v["meta"] ELSE EmptyDict
    IN IF meta.t = "dict"
       THEN LET rt == Get(meta, "resourceType")
            IN IF Truthy(rt) /\ ~EqStr(rt, expected_type)
               THEN <<Hard("resource_type", "meta.resourceType")>> ELSE <<>>
       ELSE <<>>

\* "urn in schemas" for the value data.get("schemas", []): membership in a list, a
\* substring of a str, a key of a dict; any other value is not iterable and raises
InRaises(schemas) == schemas.t \in {"null", "int", "float", "bool"}
UrnIn(urn, schemas) ==
    CASE schemas.t = "list" -> \E i \in 1..Len(schemas.v) : EqStr(schemas.v[i], urn)
      [] schemas.t = "str" -> HasSub(schemas.v, urn)
      [] schemas.t = "dict" -> urn[1] \in DOMAIN schemas.v
      [] OTHER -> FALSE

validate_resource_response(strict, data, expected_status, actual_status, headers, resource_type) ==
    LET eStatus == IF actual_status # expected_status THEN <<Hard("status", "")>> ELSE <<>>
        eCt == eStatus \o ContentTypeErrors(strict, headers)
        schemas == Get(data, "schemas")
        eId == eCt \o (IF ~Has(data, "id") THEN <<Hard("id_missing", "")>> ELSE <<>>)
        meta == Get(data, "meta")
        version == Get(meta, "version")
        MetaFieldErrors ==
            (IF ~Has(meta, "resourceType") THEN <<Hard("meta_field", "meta.resourceType")>> ELSE <<>>)
            \o (IF ~Has(meta, "created") THEN <<Hard("meta_field", "meta.created")>> ELSE <<>>)
            \o (IF ~Has(meta, "lastModified")
                THEN <<Hard("meta_field", "meta.lastModified")>> ELSE <<>>)
        eMeta == eId \o
            (IF meta.t = "null" THEN <<Hard("meta_missing", "")>>
             ELSE IF meta.t = "dict"
                  THEN MetaFieldErrors
                       \o (IF version.t # "null" /\ version.t # "str"
                           THEN <<Hard("version_type", "meta.version")>> ELSE <<>>)
                  ELSE <<>>)
        metaOk == DOMAIN headers # {} /\ Truthy(meta) /\ meta.t = "dict"
        etag == _header_value(headers, "ETag")
        \* version.strip raises for a truthy value that is no str
        etagRaises == metaOk /\ etag # <<>> /\ Truthy(version) /\ version.t # "str"
        eEtag == eMeta \o
            (IF metaOk /\ etag # <<>> /\ Truthy(version) /\ Strip(etag) # Strip(version.v)
             THEN <<ServerValidationError("etag_mismatch", "", _sev(strict, TRUE))>> ELSE <<>>)
        loc_header == _header_value(headers, "Location")
        meta_loc == Get(meta, "location")
        eLoc == eEtag \o
            (IF actual_status = 201 /\ metaOk
             THEN IF loc_header # <<>> /\ Truthy(meta_loc) /\ ~EqStr(meta_loc, loc_header)
                  THEN <<ServerValidationError("location_mismatch", "", _sev(strict, TRUE))>>
                  ELSE IF loc_header = <<>>
                       THEN <<ServerValidationError("location_missing", "", _sev(strict, TRUE))>>
                       ELSE <<>>
             ELSE <<>>)
        \* an unhashable element of schemas makes the registry lookup raise
        WriteOnlyRaises == \E i \in 1..Len(schemas.v) : schemas.v[i].t \in {"list", "dict"}
        eWo == eLoc \o _check_write_only(data, schemas.v)
        eAll == eWo \o (IF resource_type # <<>>
                        THEN _check_resource_type_match(data, resource_type) ELSE <<>>)
    IN IF actual_status # expected_status /\ actual_status >= 400
       THEN Returned(_is_valid(eStatus), eStatus)
       ELSE IF data.t = "null"
       THEN LET e == eStatus \o (IF expected_status # 204 THEN <<Hard("body_empty", "")>> ELSE <<>>)
            IN Returned(_is_valid(e), e)
       ELSE IF data.t # "dict" THEN Raised      \* data.get on a list, a str or a number
       ELSE IF ~Truthy(schemas) \/ schemas.t # "list"
       THEN Returned(FALSE, eCt \o <<Hard("schemas_missing", "")>>)
       ELSE IF etagRaises \/ WriteOnlyRaises THEN Raised
       ELSE Returned(_is_valid(eAll), eAll)

PaginationErrors(strict, data, field) ==
    \* isinstance(x, int): bool is a subclass of int
    IF Has(data, field) /\ data.v[field].t \notin {"int", "bool"}
    THEN <<ServerValidationError("pagination_type", field, _sev(strict, TRUE))>> ELSE <<>>

validate_list_response(strict, data, actual_status, headers) ==
    LET eStatus == IF actual_status # 200 THEN <<Hard("list_status", "")>> ELSE <<>>
        eCt == eStatus \o ContentTypeErrors(strict, headers)
        schemas == IF Has(data, "schemas") THEN data.v["schemas"] ELSE JList(<<>>)
        eSchema == eCt \o (IF ~UrnIn(Urn.ListResponse, schemas)
                           THEN <<Hard("list_schema", "")>> ELSE <<>>)
        eTotal == eSchema \o
            (IF ~Has(data, "totalResults") THEN <<Hard("total_results_missing", "")>>
             ELSE IF data.v["totalResults"].t \notin {"int", "bool"}
                  THEN <<ServerValidationError("total_results_type", "", _sev(strict, TRUE))>>
                  ELSE <<>>)
        eRes == eTotal \o (IF Has(data, "Resources") /\ data.v["Resources"].t # "list"
                           THEN <<Hard("resources_type", "")>> ELSE <<>>)
        eAll == eRes \o PaginationErrors(strict, data, "startIndex")
                     \o PaginationErrors(strict, data, "itemsPerPage")
    IN IF data.t = "null" THEN Returned(FALSE, eStatus \o <<Hard("body_empty", "")>>)
       ELSE IF data.t # "dict" THEN Raised
       ELSE IF InRaises(schemas) THEN Raised
       ELSE Returned(_is_valid(eAll), eAll)

validate_error_response(strict, data, expected_status, actual_status) ==
    LET eStatus == IF actual_status # expected_status THEN <<Hard("status", "")>> ELSE <<>>
        schemas == IF Has(data, "schemas") THEN data.v["schemas"] ELSE JList(<<>>)
        eSchema == eStatus \o (IF ~UrnIn(Urn.Error, schemas)
                               THEN <<ServerValidationError("error_schema", "", _sev(strict, TRUE))>>
                               ELSE <<>>)
        eAll == eSchema \o (IF ~Has(data, "status")
                            THEN <<ServerValidationError("error_status_attr", "", _sev(strict, TRUE))>>
                            ELSE <<>>)
    IN IF data.t = "null"
       THEN LET e == eStatus \o <<ServerValidationError("error_body_empty", "", _sev(strict, TRUE))>>
            IN Returned(_is_valid(e), e)
       ELSE IF data.t # "dict" THEN Raised
       ELSE IF InRaises(schemas) THEN Raised
       ELSE Returned(_is_valid(eAll), eAll)

\* body: the response text, one of "empty", "blank" (white space only), "text", "json"
validate_delete_response(strict, actual_status, body) ==
    LET e == (IF actual_status # 204 THEN <<Hard("delete_status", "")>> ELSE <<>>)
             \o (IF body.k \in {"text", "json"}
                 THEN <<ServerValidationError("delete_body", "", _sev(strict, TRUE))>> ELSE <<>>)
    IN Returned(_is_valid(e), e)

----------------------------------------------------------------------------
(* HTTP messages *)

\* a request path: the endpoint ("/Users"), the resource id (<<>> when there is none)
\* and the query string
Path(endpoint, rid, query) == [endpoint |-> endpoint, rid |-> rid, query |-> query]

Request(method, path, headers, payload) ==
    [method |-> method, path |-> path, headers |-> headers, payload |-> payload]

JsonBody(j) == [k |-> "json", j |-> j]
EmptyBody == [k |-> "empty", j |-> JNull]

SCIMResponse(status_code, headers, body) ==
    [exc |-> FALSE, status_code |-> status_code, headers |-> headers, body |-> body]

\* a transport exception in place of a response
TransportError == [exc |-> TRUE, status_code |-> 0, headers |-> <<>>, body |-> EmptyBody]

\* "resp.json() if resp.body else None": json.loads raises on a body that is not JSON
JsonRaises(resp) == resp.body.k = "text"
Data(resp) == IF resp.body.k = "json" THEN resp.body.j ELSE JNull

----------------------------------------------------------------------------
(* Reference server (MockSCIMServer, MockSCIMHandler) *)

_resource_type_name(endpoint) ==
    CASE endpoint = "Users" -> "User"
      [] endpoint = "Groups" -> "Group"
      [] endpoint = "Agents" -> "Agent"
      [] endpoint = "AgenticApplications" -> "AgenticApplication"
      [] OTHER -> endpoint

\* the first path segment without its slash, and the second one
_parse_path(path) ==
    LET seg == CASE path.endpoint = "/Users" -> "Users"
                 [] path.endpoint = "/Groups" -> "Groups"
                 [] path.endpoint = "/Agents" -> "Agents"
                 [] path.endpoint = "/AgenticApplications" -> "AgenticApplications"
                 [] path.endpoint = "/ServiceProviderConfig" -> "ServiceProviderConfig"
                 [] path.endpoint = "/Schemas" -> "Schemas"
                 [] path.endpoint = "/ResourceTypes" -> "ResourceTypes"
                 [] OTHER -> path.endpoint
    IN <<seg, path.rid>>

\* the first token of an id stands for its first eight characters
First8(id) == IF id = <<>> THEN <<>> ELSE <<Head(id)>>

\* uuid.uuid4().hex: a counter makes every id fresh
NewId(n) == <<ToString(n), "-0000-0000-0000-000000000000">>

ServerHeaders == "Server" :> <<"BaseHTTP">>

\* what a handler leaves: its response and the server state after it
Out(resp, st, nc, stale, u) ==
    [resp |-> resp, stores |-> st, non_conformances |-> nc, stale_snapshots |-> stale, uuid |-> u]

\* faulty variants of _content_type, to compare with: application/json whatever the flag
_content_type_Json(nc) == CtJson

_content_type(nc) == IF nc.content_type_json THEN CtJson ELSE CtScim

_send_json(nc, status, body, extra_headers) ==
    SCIMResponse(status, extra_headers @@ ("Content-Type" :> _content_type(nc)) @@ ServerHeaders,
                 JsonBody(body))

ErrorBody(status) ==
    JDict(("schemas" :> JList(<<JStr(Urn.Error)>>)) @@ ("status" :> JStr(<<ToString(status)>>))
          @@ ("detail" :> JStr(<<"detail">>)))

_send_error(nc, status) == _send_json(nc, status, ErrorBody(status), <<>>)

_make_meta(nc, resource_type, resource_id) ==
    LET meta == ("resourceType" :> JStr(<<_resource_type_name(resource_type)>>))
                @@ ("created" :> JStr(<<"now">>)) @@ ("lastModified" :> JStr(<<"now">>))
                @@ ("location" :> JStr(<<"http://127.0.0.1:port", "/", resource_type, "/">> \o resource_id))
                @@ ("version" :> JStr(<<"W/", Quote>> \o First8(resource_id) \o <<Quote>>))
    IN JDict(IF nc.missing_meta_fields
             THEN Obj(DOMAIN meta \ {"created", "lastModified"}, meta) ELSE meta)

_enrich_response(nc, resource_type, resource_id, data) ==
    LET withId == IF nc.missing_id THEN Obj(DOMAIN data.v \ {"id"}, data.v)
                  ELSE ("id" :> JStr(resource_id)) @@ data.v
        withMeta == IF ~nc.missing_meta
                    THEN ("meta" :> _make_meta(nc, resource_type, resource_id)) @@ withId
                    ELSE withId
    IN JDict(IF nc.password_in_response /\ Has(data, "password")
             THEN withMeta ELSE Obj(DOMAIN withMeta \ {"password"}, withMeta))

\* list(store.values()), each resource enriched
ListBody(nc, resource_type, store) ==
    LET RECURSIVE Enumerate(_)
        Enumerate(S) == IF S = {} THEN <<>>
                        ELSE LET x == CHOOSE y \in S : TRUE IN <<x>> \o Enumerate(S \ {x})
        ids == Enumerate(DOMAIN store)
        resources == [i \in 1..Len(ids) |-> _enrich_response(nc, resource_type, ids[i], store[ids[i]])]
    IN JDict(("schemas" :> JList(<<JStr(Urn.ListResponse)>>))
             @@ ("totalResults" :> JInt(Len(resources))) @@ ("Resources" :> JList(resources))
             @@ ("startIndex" :> JInt(1)) @@ ("itemsPerPage" :> JInt(Len(resources))))

\* the resource types the server was started with, in the order given
ResourceTypesBody(st) ==
    LET sup == SelectSeq(<<"User", "Group", "Agent", "AgenticApplication">>, LAMBDA rt : (rt \o "s") \in DOMAIN st)
    IN JDict(("schemas" :> JList(<<JStr(Urn.ListResponse)>>)) @@ ("totalResults" :> JInt(Len(sup)))
             @@ ("Resources" :> JList([i \in 1..Len(sup) |->
                    JDict(("name" :> JStr(<<sup[i]>>)) @@ ("endpoint" :> JStr(<<"/", sup[i] \o "s">>)))])))

do_GET(req, st, nc, stale, u) ==
    LET resource_type == _parse_path(req.path)[1]
        resource_id == _parse_path(req.path)[2]
        stale_key == <<resource_type, resource_id>>
        ServiceProviderConfigBody ==
            JDict(("schemas" :> JList(<<JStr(
                        <<"urn:ietf:params:scim:schemas:core:2.0:ServiceProviderConfig">>)>>))
                  @@ ("patch" :> JDict("supported" :> JBool(TRUE))))
        SchemasBody ==
            JDict(("schemas" :> JList(<<JStr(Urn.ListResponse)>>)) @@ ("totalResults" :> JInt(0))
                  @@ ("Resources" :> JList(<<>>)))
    IN IF resource_type = "ServiceProviderConfig"
       THEN Out(_send_json(nc, 200, ServiceProviderConfigBody, <<>>), st, nc, stale, u)
       ELSE IF resource_type = "Schemas"
       THEN Out(_send_json(nc, 200, SchemasBody, <<>>), st, nc, stale, u)
       ELSE IF resource_type = "ResourceTypes"
       THEN Out(_send_json(nc, 200, ResourceTypesBody(st), <<>>), st, nc, stale, u)
       ELSE IF resource_type \notin DOMAIN st
       THEN Out(_send_error(nc, 404), st, nc, stale, u)
       ELSE IF resource_id = <<>>
       THEN IF nc.reject_filters /\ req.path.query = "filter"
            THEN Out(_send_error(nc, 400), st, nc, stale, u)
            ELSE Out(_send_json(nc, 200, ListBody(nc, resource_type, st[resource_type]), <<>>),
                     st, nc, stale, u)
       ELSE IF resource_id \notin DOMAIN st[resource_type]
       THEN Out(_send_error(nc, 404), st, nc, stale, u)
       ELSE IF stale_key \in DOMAIN stale
       THEN Out(_send_json(nc, 200, _enrich_response(nc, resource_type, resource_id, stale[stale_key]), <<>>),
                st, nc, [k \in DOMAIN stale \ {stale_key} |-> stale[k]], u)
       ELSE Out(_send_json(nc, 200,
                           _enrich_response(nc, resource_type, resource_id, st[resource_type][resource_id]),
                           <<>>),
                st, nc, stale, u)

do_POST(req, st, nc, stale, u) ==
    LET resource_type == _parse_path(req.path)[1]
        body == req.payload
        schemas == Get(body, "schemas")
        resource_id == NewId(u)
        enriched == _enrich_response(nc, resource_type, resource_id, body)
        location == <<"http://127.0.0.1:port", "/", resource_type, "/">> \o resource_id
        meta == Get(enriched, "meta")
        etag == IF meta.t = "dict" /\ Has(meta, "version") THEN meta.v["version"].v ELSE <<>>
        extra == IF etag # <<>> THEN ("Location" :> location) @@ ("ETag" :> etag)
                 ELSE ("Location" :> location)
        \* the attribute a POST must carry, by resource type
        RequiredAttr(rtype) ==
            CASE rtype = "User" -> "userName"
              [] rtype = "Group" -> "displayName"
              [] OTHER -> "name"
    IN IF resource_type \notin DOMAIN st THEN Out(_send_error(nc, 404), st, nc, stale, u)
       ELSE IF body.t # "dict" THEN Out(_send_error(nc, 400), st, nc, stale, u)
       ELSE IF ~Truthy(schemas) \/ schemas.t # "list" THEN Out(_send_error(nc, 400), st, nc, stale, u)
       ELSE IF ~Has(body, RequiredAttr(_resource_type_name(resource_type)))
       THEN Out(_send_error(nc, 400), st, nc, stale, u)
       ELSE Out(_send_json(nc, 201, enriched, extra),
                [st EXCEPT ![resource_type] = (resource_id :> body) @@ @], nc, stale, u + 1)

\* faulty variant of do_PUT, to compare with: the snapshot is taken after the store
\* was written
do_PUT_SnapshotAfter(req, st, nc, stale, u) ==
    LET resource_type == _parse_path(req.path)[1]
        resource_id == _parse_path(req.path)[2]
        body == req.payload
        stale_key == <<resource_type, resource_id>>
    IN IF resource_type \notin DOMAIN st \/ resource_id = <<>>
       THEN Out(_send_error(nc, 404), st, nc, stale, u)
       ELSE IF resource_id \notin DOMAIN st[resource_type]
       THEN Out(_send_error(nc, 404), st, nc, stale, u)
       ELSE IF body.t # "dict" THEN Out(_send_error(nc, 400), st, nc, stale, u)
       ELSE Out(_send_json(nc, 200, _enrich_response(nc, resource_type, resource_id, body), <<>>),
                [st EXCEPT ![resource_type][resource_id] = body], nc,
                IF nc.stale_after_put THEN (stale_key :> body) @@ stale ELSE stale,
                u)

do_PUT(req, st, nc, stale, u) ==
    LET resource_type == _parse_path(req.path)[1]
        resource_id == _parse_path(req.path)[2]
        body == req.payload
        stale_key == <<resource_type, resource_id>>
    IN IF resource_type \notin DOMAIN st \/ resource_id = <<>>
       THEN Out(_send_error(nc, 404), st, nc, stale, u)
       ELSE IF resource_id \notin DOMAIN st[resource_type]
       THEN Out(_send_error(nc, 404), st, nc, stale, u)
       ELSE IF body.t # "dict" THEN Out(_send_error(nc, 400), st, nc, stale, u)
       ELSE Out(_send_json(nc, 200, _enrich_response(nc, resource_type, resource_id, body), <<>>),
                [st EXCEPT ![resource_type][resource_id] = body], nc,
                IF nc.stale_after_put
                THEN (stale_key :> st[resource_type][resource_id]) @@ stale ELSE stale,
                u)

\* the operations of a PATCH body applied to the top-level attributes of a resource
RECURSIVE ApplyOperations(_, _)
ApplyOperations(resource, operations) ==
    IF operations = <<>> THEN resource
    ELSE LET op == Head(operations)
             op_type == Get(op, "op")
             path == Get(op, "path")
             key == path.v[1]
             applied ==
                IF Truthy(path) /\ (EqStr(op_type, <<"add">>) \/ EqStr(op_type, <<"replace">>))
                THEN JDict((key :> Get(op, "value")) @@ resource.v)
                ELSE IF Truthy(path) /\ EqStr(op_type, <<"remove">>)
                THEN JDict(Obj(DOMAIN resource.v \ {key}, resource.v))
                ELSE resource
         IN ApplyOperations(applied, Tail(operations))

do_PATCH(req, st, nc, stale, u) ==
    LET resource_type == _parse_path(req.path)[1]
        resource_id == _parse_path(req.path)[2]
        body == req.payload
        operations == IF Has(body, "Operations") THEN body.v["Operations"].v ELSE <<>>
        resource == ApplyOperations(st[resource_type][resource_id], operations)
    IN IF resource_type \notin DOMAIN st \/ resource_id = <<>>
       THEN Out(_send_error(nc, 404), st, nc, stale, u)
       ELSE IF resource_id \notin DOMAIN st[resource_type]
       THEN Out(_send_error(nc, 404), st, nc, stale, u)
       ELSE IF body.t # "dict" THEN Out(_send_error(nc, 400), st, nc, stale, u)
       ELSE Out(_send_json(nc, 200, _enrich_response(nc, resource_type, resource_id, resource), <<>>),
                [st EXCEPT ![resource_type][resource_id] = resource], nc, stale, u)

do_DELETE(req, st, nc, stale, u) ==
    LET resource_type == _parse_path(req.path)[1]
        resource_id == _parse_path(req.path)[2]
    IN IF resource_type \notin DOMAIN st \/ resource_id = <<>>
       THEN Out(_send_error(nc, 404), st, nc, stale, u)
       ELSE IF resource_id \notin DOMAIN st[resource_type]
       THEN Out(_send_error(nc, 404), st, nc, stale, u)
       ELSE Out(SCIMResponse(204, ServerHeaders, EmptyBody),
                [st EXCEPT ![resource_type] = [k \in DOMAIN @ \ {resource_id} |-> @[k]]],
                nc, stale, u)

\* every handler starts with _throttle_check: 429 and a decrement while throttle_count > 0
Handle(req, st, nc, stale, u) ==
    IF nc.throttle_count > 0
    THEN Out(SCIMResponse(429, ("Retry-After" :> <<"0">>) @@ ("Content-Type" :> CtScim)
                               @@ ServerHeaders,
                          JsonBody(ErrorBody(429))), st, [nc EXCEPT !.throttle_count = @ - 1], stale, u)
    ELSE CASE req.method = "GET" -> do_GET(req, st, nc, stale, u)
           [] req.method = "POST" -> do_POST(req, st, nc, stale, u)
           [] req.method = "PUT" -> do_PUT(req, st, nc, stale, u)
           [] req.method = "PATCH" -> do_PATCH(req, st, nc, stale, u)
           [] req.method = "DELETE" -> do_DELETE(req, st, nc, stale, u)

----------------------------------------------------------------------------
(* The server under test as the client sees it: the reference server, and   *)
(* from one exchange on a network or server fault chosen when the run starts *)

NoFault == [kind |-> "none", at |-> 0, len |-> 0, forever |-> FALSE, script |-> <<>>]
Fault(kind, at, len, forever) ==
    [kind |-> kind, at |-> at, len |-> len, forever |-> forever, script |-> <<>>]

\* one HTTP exchange: a transport failure, a 500 from in front of the server
\* (for every request, or for those with Content-Type application/scim+json),
\* or the server's answer, possibly with its body or its status replaced
Exchange(req, f, pos, st, nc, stale, u) ==
    LET \* the fault covers the pos-th exchange of the run
        FaultActive == f.kind # "none" /\ pos >= f.at /\ (f.forever \/ pos < f.at + f.len)
        \* a script gives the fault of each exchange it covers
        kind == IF ~FaultActive THEN "none"
                ELSE IF f.kind = "script" THEN f.script[pos - f.at + 1] ELSE f.kind
        \* a response whose body is not what the probe expects (not JSON, a JSON list,
        \* nothing, a JSON object of another shape), or whose status is another one
        Tampered(resp) ==
            CASE kind = "nonjson" -> [resp EXCEPT !.body = [k |-> "text", j |-> JNull]]
              [] kind = "nondict" -> [resp EXCEPT !.body = JsonBody(JList(<<JInt(1)>>))]
              [] kind = "empty" -> [resp EXCEPT !.body = EmptyBody]
              [] kind = "shape" ->
                    [resp EXCEPT !.body = JsonBody(JDict("unexpected" :> JBool(TRUE)))]
              [] kind = "s202" -> [resp EXCEPT !.status_code = 202]
              [] kind = "s400" -> [resp EXCEPT !.status_code = 400]
              [] kind = "b500" -> [resp EXCEPT !.status_code = 500]
              [] OTHER -> resp
        \* a server that does not check what it is sent: the payload is taken as a
        \* user whatever it lacks
        Lenient(r) ==
            IF r.method = "POST" /\ r.payload.t = "dict"
            THEN [r EXCEPT !.payload = JDict(r.payload.v @@ ("schemas" :> JList(<<JStr(Urn.User)>>))
                                             @@ ("userName" :> JStr(<<"unnamed">>)))]
            ELSE r
        o == Handle(IF kind = "lenient" THEN Lenient(req) ELSE req, st, nc, stale, u)
    IN  IF kind = "exc" THEN Out(TransportError, st, nc, stale, u)
        ELSE IF kind = "s500" \/ (kind = "ctype" /\ req.headers["Content-Type"] = CtScim)
        THEN Out(_send_error(nc, 500), st, nc, stale, u)
        ELSE [o EXCEPT !.resp = Tampered(@)]

----------------------------------------------------------------------------
(* HTTP client (SCIMClient) *)

_MAX_RETRIES == 3
_DEFAULT_RETRY_AFTER == 2

Min(a, b) == IF a <= b THEN a ELSE b

_parse_retry_after(value) ==
    LET \* float(value) for the header values that occur; anything else does not parse
        Seconds == ("0" :> 0) @@ ("1" :> 1) @@ ("5" :> 5)
        Max(a, b) == IF a >= b THEN a ELSE b
    IN  IF value = <<>> THEN _DEFAULT_RETRY_AFTER
        ELSE IF Len(value) = 1 /\ value[1] \in DOMAIN Seconds THEN Max(1, Seconds[value[1]])
        ELSE _DEFAULT_RETRY_AFTER

_build_headers(extra) == extra @@ ("Accept" :> CtScim) @@ ("Content-Type" :> CtScim)

\* faulty variants of ShouldRetry, to compare with: one retry too many
ShouldRetry_OneMore(resp, attempt) == resp.status_code = 429 /\ attempt <= _MAX_RETRIES

\* "resp.status_code == 429 and attempt < _MAX_RETRIES"
ShouldRetry(resp, attempt) == resp.status_code = 429 /\ attempt < _MAX_RETRIES

\* the client between two calls, and at the start of a call
IdleClient == [active |-> FALSE, attempt |-> 0, n0 |-> 0, sent |-> <<>>, sleeps |-> <<>>]
NewCall(n0) == [active |-> TRUE, attempt |-> 0, n0 |-> n0, sent |-> <<>>, sleeps |-> <<>>]

NoResp == [got |-> FALSE, r |-> TransportError]
Delivered(resp) == [got |-> TRUE, r |-> resp]

----------------------------------------------------------------------------
(* Probe results (ProbeResult) and payloads (payload_factory) *)

PASS == "pass"
SKIP == "skip"
ERROR == "error"

ProbeResult(name, status, phase) == [name |-> name, status |-> status, phase |-> phase]

\* the uuid suffix of a generated value: the servers modelled never compare two payloads
Suffix == "suffix"

make_user ==
    JDict(("schemas" :> JList(<<JStr(Urn.User)>>))
          @@ ("userName" :> JStr(<<"scim-sanity-test-", Suffix, "@example.com">>))
          @@ ("name" :> JDict(("givenName" :> JStr(<<"SCIMSanity">>))
                              @@ ("familyName" :> JStr(<<"Test-", Suffix>>))))
          @@ ("displayName" :> JStr(<<"SCIM Sanity Test User ", Suffix>>))
          @@ ("active" :> JBool(TRUE))
          @@ ("emails" :> JList(<<JDict(("value" :> JStr(<<"scim-sanity-test-", Suffix, "@example.com">>))
                                        @@ ("type" :> JStr(<<"work">>))
                                        @@ ("primary" :> JBool(TRUE)))>>)))

make_group ==
    JDict(("schemas" :> JList(<<JStr(Urn.Group)>>))
          @@ ("displayName" :> JStr(<<"scim-sanity-test-group-", Suffix>>)))

make_agent ==
    JDict(("schemas" :> JList(<<JStr(Urn.Agent)>>))
          @@ ("name" :> JStr(<<"scim-sanity-test-agent-", Suffix>>))
          @@ ("displayName" :> JStr(<<"SCIM Sanity Test Agent ", Suffix>>))
          @@ ("active" :> JBool(TRUE)))

make_agentic_application ==
    JDict(("schemas" :> JList(<<JStr(Urn.AgenticApplication)>>))
          @@ ("name" :> JStr(<<"scim-sanity-test-app-", Suffix>>))
          @@ ("displayName" :> JStr(<<"SCIM Sanity Test App ", Suffix>>))
          @@ ("active" :> JBool(TRUE)))

make_patch(operations) ==
    JDict(("schemas" :> JList(<<JStr(Urn.PatchOp)>>)) @@ ("Operations" :> JList(operations)))

PatchOperation(op, path) == ("op" :> JStr(<<op>>)) @@ ("path" :> JStr(<<path>>))

_validation_results(test_name, phase, ok, errors) ==
    LET fails == SelectSeq(errors, LAMBDA e : e.severity # WARN)
        warns == SelectSeq(errors, LAMBDA e : e.severity = WARN)
    IN <<ProbeResult(test_name, IF ok /\ fails = <<>> THEN PASS ELSE FAIL, phase)>>
       \o [i \in 1..Len(warns) |-> ProbeResult(test_name, WARN, phase)]

\* "key in x": a key of a dict, an element of a list, a substring of a str;
\* a number or a bool is not iterable and raises
KeyInRaises(x) == x.t \in {"int", "float", "bool"}
KeyIn(key, x) ==
    CASE x.t = "dict" -> key \in DOMAIN x.v
      [] x.t = "list" -> \E i \in 1..Len(x.v) : EqStr(x.v[i], <<key>>)
      [] x.t = "str" -> HasSub(x.v, <<key>>)
      [] OTHER -> FALSE

----------------------------------------------------------------------------
(* Probe orchestrator (run_probe) and its test functions *)

MAX_RAPID_AGENTS == 10

\* the lifecycle of each of the phases 2..5: resource type, endpoint, make_fn, phase label
Lifecycle(n) ==
    CASE n = 2 -> [resource_type |-> "User", endpoint |-> "/Users", payload |-> make_user,
                   phase |-> "Phase 2 - User CRUD Lifecycle"]
      [] n = 3 -> [resource_type |-> "Group", endpoint |-> "/Groups", payload |-> make_group,
                   phase |-> "Phase 3 - Group CRUD Lifecycle"]
      [] n = 4 -> [resource_type |-> "Agent", endpoint |-> "/Agents", payload |-> make_agent,
                   phase |-> "Phase 4 - Agent CRUD Lifecycle"]
      [] n = 5 -> [resource_type |-> "AgenticApplication", endpoint |-> "/AgenticApplications",
                   payload |-> make_agentic_application,
                   phase |-> "Phase 5 - AgenticApplication CRUD Lifecycle"]

\* the locals of _crud_lifecycle and of test_agent_rapid_lifecycle before they run
NoLifecycle ==
    [resource_type |-> "", endpoint |-> "", payload |-> JNull, phase |-> "",
     resp |-> TransportError, created |-> JNull, resource_id |-> JNull, diag_id |-> JNull,
     slept |-> <<>>, hint |-> FALSE]
NoRapid == [i |-> 0, successes |-> 0, failures |-> 0, agent_id |-> JNull]

\* f"{endpoint}/{resource_id}": the text of an id
IdText(x) == IF x.t = "str" THEN x.v ELSE <<"non-str">>


DiscoveryPaths == <<"/ServiceProviderConfig", "/Schemas", "/ResourceTypes">>

\* the request the probe makes at each of its positions, as SCIMClient.get, post,
\* put, patch and delete build it
CurrentRequest ==
    LET ClientGet(path) == Request("GET", path, _build_headers(<<>>), JNull)
        ClientDelete(path) == Request("DELETE", path, _build_headers(<<>>), JNull)
        ClientPost(path, payload, extra) == Request("POST", path, _build_headers(extra), payload)
        ClientPut(path, payload) == Request("PUT", path, _build_headers(<<>>), payload)
        ClientPatch(path, payload) == Request("PATCH", path, _build_headers(<<>>), payload)
        ResourcePath == Path(lc.endpoint, IdText(lc.resource_id), "")
        put_payload ==
            JDict(("displayName" :> JStr(<<"Updated-">> \o First8(IdText(lc.resource_id))))
                  @@ Obj(DOMAIN lc.created.v \ {"meta"}, lc.created.v))
    IN  CASE pc = "discovery" -> ClientGet(Path(DiscoveryPaths[idx], <<>>, ""))
          [] pc = "discover" -> ClientGet(Path("/ResourceTypes", <<>>, ""))
          [] pc \in {"crud_post", "crud_retry"} ->
                ClientPost(Path(lc.endpoint, <<>>, ""), lc.payload, <<>>)
          [] pc = "crud_diag" ->
                ClientPost(Path(lc.endpoint, <<>>, ""), lc.payload, "Content-Type" :> CtJson)
          [] pc = "crud_diag_delete" -> ClientDelete(Path(lc.endpoint, IdText(lc.diag_id), ""))
          [] pc \in {"crud_get", "crud_put_verify", "crud_patch_verify", "crud_delete_verify"} ->
                ClientGet(ResourcePath)
          [] pc = "crud_put" -> ClientPut(ResourcePath, put_payload)
          [] pc = "crud_patch" ->
                ClientPatch(ResourcePath,
                            make_patch(<<JDict(PatchOperation("replace", "active")
                                               @@ ("value" :> JBool(FALSE)))>>))
          [] pc = "crud_add_member" ->
                ClientPatch(ResourcePath,
                            make_patch(<<JDict(PatchOperation("add", "members")
                                @@ ("value" :> JList(<<JDict("value" :> JStr(<<"fake-member-id">>))>>)))>>))
          [] pc = "crud_remove_members" ->
                ClientPatch(ResourcePath, make_patch(<<JDict(PatchOperation("remove", "members"))>>))
          [] pc = "crud_delete" -> ClientDelete(ResourcePath)
          [] pc = "rapid_post" -> ClientPost(Path("/Agents", <<>>, ""), make_agent, <<>>)
          [] pc = "rapid_delete" -> ClientDelete(Path("/Agents", IdText(rp.agent_id), ""))
          [] pc = "search_list" -> ClientGet(Path("/Users", <<>>, ""))
          [] pc = "search_filter" -> ClientGet(Path("/Users", <<>>, "filter"))
          [] pc = "search_page" -> ClientGet(Path("/Users", <<>>, "startIndex=1&count=1"))
          [] pc = "search_count0" -> ClientGet(Path("/Users", <<>>, "count=0"))
          [] pc = "err_get" -> ClientGet(Path("/Users", <<"nonexistent-id-000000">>, ""))
          [] pc = "err_post_invalid" ->
                ClientPost(Path("/Users", <<>>, ""),
                           JDict("not" :> JStr(<<"a scim resource">>)), <<>>)
          [] pc = "err_post_missing" ->
                ClientPost(Path("/Users", <<>>, ""), JDict("schemas" :> JList(<<JStr(Urn.User)>>)), <<>>)
          [] pc = "cleanup" ->
                ClientDelete(Path(created_resources[idx].endpoint, IdText(created_resources[idx].id), ""))

RequestPcs ==
    {"discovery", "discover", "crud_post", "crud_retry", "crud_diag", "crud_diag_delete",
     "crud_get", "crud_put", "crud_put_verify", "crud_patch", "crud_patch_verify",
     "crud_add_member", "crud_remove_members", "crud_delete", "crud_delete_verify",
     "rapid_post", "rapid_delete", "search_list", "search_filter", "search_page",
     "search_count0", "err_get", "err_post_invalid", "err_post_missing", "cleanup"}

\* one attempt of the loop of SCIMClient._request for the probe's current request:
\* a transport exception propagates, a 429 before the last attempt sleeps and retries,
\* any other response is returned
_request ==
    /\ pc \in RequestPcs /\ ~rsp.got
    /\ LET req == CurrentRequest
           call == IF cl.active THEN cl ELSE NewCall(non_conformances.throttle_count)
           o == Exchange(req, fault, attempts_total + 1,
                         stores, non_conformances, stale_snapshots, uuid)
           resp == o.resp
           sent == Append(call.sent, req)
       IN /\ stores' = o.stores
          /\ non_conformances' = o.non_conformances
          /\ stale_snapshots' = o.stale_snapshots
          /\ uuid' = o.uuid
          /\ attempts_total' = attempts_total + 1
          /\ posted' = IF /\ req.method = "POST" /\ ~resp.exc /\ resp.status_code \in 200..299
                          /\ Data(resp).t = "dict" /\ "id" \in DOMAIN Data(resp).v
                       THEN posted \cup {[endpoint |-> req.path.endpoint, id |-> Data(resp).v["id"]]}
                       ELSE posted
          /\ IF ~resp.exc /\ ShouldRetry(resp, call.attempt)
             THEN LET sleeps == Append(call.sleeps,
                                       _parse_retry_after(_header_value(resp.headers, "Retry-After")))
                  IN IF call.attempt + 1 <= _MAX_RETRIES
                     THEN /\ cl' = [call EXCEPT !.attempt = @ + 1, !.sent = sent, !.sleeps = sleeps]
                          /\ rsp' = NoResp
                     ELSE \* the loop is exhausted: the last response is returned
                          /\ cl' = [call EXCEPT !.active = FALSE, !.sent = sent, !.sleeps = sleeps]
                          /\ rsp' = Delivered(resp)
             ELSE /\ cl' = [call EXCEPT !.active = FALSE, !.sent = sent]
                  /\ rsp' = Delivered(resp)
    /\ UNCHANGED <<opt, fault, server_args, pc, phase_no, idx, lc, rp, results, created_resources,
                   supported, exit_code, printed, deletes, ever_created, vcall, vres, sv, cx, srv, rep>>

\* the probe's own state, and what a step of it leaves
Here ==
    [pc |-> pc, phase_no |-> phase_no, idx |-> idx, lc |-> lc, rp |-> rp, results |-> results,
     created_resources |-> created_resources, supported |-> supported,
     deletes |-> deletes, ever_created |-> ever_created]

Apply(s) ==
    /\ pc' = s.pc
    /\ phase_no' = s.phase_no
    /\ idx' = s.idx
    /\ lc' = s.lc
    /\ rp' = s.rp
    /\ results' = s.results
    /\ created_resources' = s.created_resources
    /\ supported' = s.supported
    /\ deletes' = s.deletes
    /\ ever_created' = s.ever_created
    /\ rsp' = NoResp
    /\ UNCHANGED <<opt, fault, server_args, stores, non_conformances, stale_snapshots, uuid, attempts_total,
                   cl, exit_code, printed, posted, vcall, vres, sv, cx, srv, rep>>

\* go on at another position; return from a test function to run_probe; an exception
\* that nothing catches leaves run_probe
Cont(s, next_pc, new_results) == [s EXCEPT !.pc = next_pc, !.results = @ \o new_results]
Ret(s, new_results) ==
    [s EXCEPT !.pc = "phase", !.phase_no = @ + 1, !.results = @ \o new_results]
Esc(s) == [s EXCEPT !.pc = "crashed"]

\* created_resources.append({"endpoint": endpoint, "id": resource_id})
Track(s, endpoint, id) ==
    [s EXCEPT !.created_resources = Append(@, [endpoint |-> endpoint, id |-> id]),
              !.ever_created = @ \cup {[endpoint |-> endpoint, id |-> id]}]

\* a DELETE the probe has sent, with the status it was answered (0: no answer)
Deleted(s, by, endpoint, id, resp) ==
    [s EXCEPT !.deletes = Append(@, [by |-> by, endpoint |-> endpoint, id |-> id,
                                     status |-> IF resp.exc THEN 0 ELSE resp.status_code,
                                     body |-> resp.body.k])]

\* faulty variants of ConsentGiven, to compare with: the gate lets every run through
ConsentGiven_Always(o) == TRUE

\* the safety gate: without consent the warning is printed and 1 is returned
ConsentGiven(o) == o.accept_side_effects

run_probe_gate ==
    /\ pc = "start" /\ ~ConsentGiven(opt)
    /\ printed' = "warning"
    /\ exit_code' = 1
    /\ pc' = "done"
    /\ UNCHANGED <<opt, fault, server_args, stores, non_conformances, stale_snapshots, uuid, attempts_total,
                   cl, rsp, phase_no, idx, lc, rp, results, created_resources, supported,
                   deletes, ever_created, posted, vcall, vres, sv, cx, srv, rep>>

\* with consent: the client and the validator are built, discovery starts
run_probe_begin ==
    /\ pc = "start" /\ ConsentGiven(opt)
    /\ Apply([Here EXCEPT !.pc = "discovery", !.idx = 1])

\* one turn of the loop of test_discovery
test_discovery ==
    /\ pc = "discovery" /\ rsp.got
    /\ LET name == "GET " \o DiscoveryPaths[idx]
           resp == rsp.r
           ct == _header_value(resp.headers, "Content-Type")
           res ==
              IF resp.exc THEN <<ProbeResult(name, ERROR, "Phase 1 - Discovery")>>
              ELSE IF resp.status_code = 200
              THEN IF HasSub(ct, <<"scim+json">>) THEN <<ProbeResult(name, PASS, "Phase 1 - Discovery")>>
                   ELSE IF HasSub(ct, CtJson)
                   THEN <<ProbeResult(name, PASS, "Phase 1 - Discovery")>>
                        \o (IF opt.strict THEN <<ProbeResult(name, WARN, "Phase 1 - Discovery")>> ELSE <<>>)
                   ELSE <<ProbeResult(name, FAIL, "Phase 1 - Discovery")>>
              ELSE <<ProbeResult(name, FAIL, "Phase 1 - Discovery")>>
       IN IF idx < Len(DiscoveryPaths)
          THEN Apply([Cont(Here, "discovery", res) EXCEPT !.idx = idx + 1])
          ELSE Apply(Cont(Here, "discover", res))

\* discover_supported_resources: the names advertised, or the fallback when the
\* request fails or anything raises
Discovered(resp) ==
    LET DefaultSupported == {<<"User">>, <<"Group">>}
        \* {r["name"] for r in resources if "name" in r}
        Names(resources) ==
            IF resources.t = "list"
            THEN IF \E i \in 1..Len(resources.v) :
                        \/ KeyInRaises(resources.v[i])
                        \/ KeyIn("name", resources.v[i]) /\ resources.v[i].t # "dict"
                        \/ KeyIn("name", resources.v[i])
                           /\ resources.v[i].v["name"].t \in {"list", "dict"}
                 THEN DefaultSupported
                 ELSE {IdText(resources.v[i].v["name"]) :
                            i \in {j \in 1..Len(resources.v) : KeyIn("name", resources.v[j])}}
            ELSE IF resources.t = "str" THEN {}
            ELSE DefaultSupported
        data == Data(resp)
    IN  IF ~resp.exc /\ resp.status_code = 200 /\ resp.body.k # "empty"
        THEN IF JsonRaises(resp) THEN DefaultSupported
             ELSE IF data.t = "list" THEN Names(data)
             ELSE IF data.t = "dict"
             THEN Names(IF Has(data, "Resources") THEN data.v["Resources"] ELSE JList(<<>>))
             ELSE DefaultSupported
        ELSE DefaultSupported

discover_supported_resources ==
    /\ pc = "discover" /\ rsp.got
    /\ Apply([Here EXCEPT !.pc = "phase", !.phase_no = 2, !.supported = Discovered(rsp.r)])

\* {resource_filter} if resource_filter else supported
Requested == IF opt.resource_filter # <<>> THEN {opt.resource_filter} ELSE supported

\* faulty variant of InScope, to compare with: what the server advertises is not looked at
InScope_RequestedOnly(n) == <<Lifecycle(n).resource_type>> \in Requested

InScope(n) ==
    /\ <<Lifecycle(n).resource_type>> \in Requested
    /\ n \in {4, 5} => <<Lifecycle(n).resource_type>> \in supported

RapidResult(failures) ==
    <<ProbeResult("Rapid create/delete agents", IF failures = 0 THEN PASS ELSE FAIL, "Phase 5a - Agent Rapid Lifecycle")>>

\* run_probe between two phases: the next phase starts or is skipped
run_probe_phase ==
    /\ pc = "phase"
    /\ Apply(
        IF phase_no \in 2..5
        THEN IF InScope(phase_no)
             THEN [Here EXCEPT !.pc = "crud_post",
                               !.lc = [NoLifecycle EXCEPT
                                          !.resource_type = Lifecycle(phase_no).resource_type,
                                          !.endpoint = Lifecycle(phase_no).endpoint,
                                          !.payload = Lifecycle(phase_no).payload,
                                          !.phase = Lifecycle(phase_no).phase]]
             ELSE Ret(Here, <<ProbeResult(Lifecycle(phase_no).resource_type \o " CRUD Lifecycle",
                                          SKIP, Lifecycle(phase_no).phase)>>)
        ELSE IF phase_no = 6
        THEN IF <<"Agent">> \in Requested /\ <<"Agent">> \in supported
             THEN IF Min(opt.rapid_agent_count, MAX_RAPID_AGENTS) > 0
                  THEN [Here EXCEPT !.pc = "rapid_post", !.rp = NoRapid]
                  ELSE Ret(Here, RapidResult(0))
             ELSE Ret(Here, <<ProbeResult("Agent Rapid Lifecycle", SKIP, "Phase 5a - Agent Rapid Lifecycle")>>)
        ELSE IF phase_no = 7 THEN [Here EXCEPT !.pc = "search_list"]
        ELSE IF phase_no = 8 THEN [Here EXCEPT !.pc = "err_get"]
        ELSE IF ~opt.skip_cleanup /\ created_resources # <<>>
             THEN [Here EXCEPT !.pc = "cleanup", !.idx = Len(created_resources)]
             ELSE [Here EXCEPT !.pc = "report"])

\* _crud_lifecycle from the validation of the POST response on: the result of the
\* validation, the bail-out without an id, the entry in created_resources
PostCreated(s, resp, pre) ==
    LET data == Data(resp)
        v == validate_resource_response(opt.strict, data, 201, resp.status_code, resp.headers,
                                        <<s.lc.resource_type>>)
        res == pre \o _validation_results("POST " \o s.lc.endpoint, s.lc.phase, v.ok, v.errors)
        skip == <<ProbeResult("GET " \o s.lc.endpoint \o "/{id}", SKIP, s.lc.phase)>>
    IN IF JsonRaises(resp) THEN Esc(s)
       ELSE IF v.raised THEN Esc(s)
       ELSE IF ~Truthy(data) THEN Ret(s, res \o skip)
       ELSE IF KeyInRaises(data) THEN Esc(s)
       ELSE IF ~KeyIn("id", data) THEN Ret(s, res \o skip)
       ELSE IF data.t # "dict" THEN Esc(s)
       ELSE Cont(Track([s EXCEPT !.lc.created = data, !.lc.resource_id = data.v["id"]],
                       s.lc.endpoint, data.v["id"]),
                 "crud_get", res)

crud_post ==
    /\ pc = "crud_post" /\ rsp.got
    /\ Apply(IF rsp.r.exc
             THEN Ret(Here, <<ProbeResult("POST " \o lc.endpoint, ERROR, lc.phase)>>)
             ELSE IF rsp.r.status_code = 500
             THEN \* _retry_post_on_500 begins with time.sleep(delay), delay = 2.0
                  [Here EXCEPT !.pc = "crud_retry", !.lc.resp = rsp.r, !.lc.slept = Append(@, 2)]
             ELSE PostCreated(Here, rsp.r, <<>>))

\* the retry of a POST answered 500: a 2xx answer replaces the first one
_retry_post_on_500 ==
    /\ pc = "crud_retry" /\ rsp.got
    /\ Apply(IF ~rsp.r.exc /\ rsp.r.status_code \in {200, 201}
             THEN PostCreated(Here, rsp.r,
                              <<ProbeResult("POST " \o lc.endpoint, WARN, lc.phase)>>)
             ELSE [Here EXCEPT !.pc = "crud_diag"])

\* the results when the diagnosis gives its hint (lc.hint records that it did)
HintResults ==
    <<ProbeResult("POST " \o lc.endpoint, FAIL, lc.phase),
      ProbeResult("GET " \o lc.endpoint \o "/{id}", SKIP, lc.phase)>>

\* the POST with Content-Type application/json: without a 2xx answer, or when
\* anything raises, there is no hint and the first response is validated
_diagnose_content_type_rejection ==
    /\ pc = "crud_diag" /\ rsp.got
    /\ LET body == Data(rsp.r)
       IN Apply(IF rsp.r.exc \/ rsp.r.status_code \notin {200, 201}
                THEN PostCreated(Here, lc.resp, <<>>)
                ELSE IF JsonRaises(rsp.r) THEN PostCreated(Here, lc.resp, <<>>)
                ELSE IF ~Truthy(body) THEN Ret([Here EXCEPT !.lc.hint = TRUE], HintResults)
                ELSE IF KeyInRaises(body) THEN PostCreated(Here, lc.resp, <<>>)
                ELSE IF ~KeyIn("id", body) THEN Ret([Here EXCEPT !.lc.hint = TRUE], HintResults)
                ELSE IF body.t # "dict" THEN PostCreated(Here, lc.resp, <<>>)
                ELSE [Here EXCEPT !.pc = "crud_diag_delete", !.lc.diag_id = body.v["id"]])

\* the DELETE of the resource the diagnosis created
diagnose_delete ==
    /\ pc = "crud_diag_delete" /\ rsp.got
    /\ LET s == [Deleted(Here, "diagnosis", lc.endpoint, lc.diag_id, rsp.r) EXCEPT !.lc.hint = TRUE]
       IN Apply(IF rsp.r.exc \/ rsp.r.status_code # 204
                THEN Ret(Track(s, lc.endpoint, lc.diag_id), HintResults)
                ELSE Ret(s, HintResults))

\* a step of _crud_lifecycle that validates a resource response outside any try
Validated(s, resp, name, expected_status, next_pc) ==
    LET v == validate_resource_response(opt.strict, Data(resp), expected_status, resp.status_code,
                                        resp.headers, <<s.lc.resource_type>>)
    IN IF resp.exc THEN Ret(s, <<ProbeResult(name, ERROR, s.lc.phase)>>)
       ELSE IF JsonRaises(resp) \/ v.raised THEN Esc(s)
       ELSE Cont(s, next_pc, _validation_results(name, s.lc.phase, v.ok, v.errors))

\* GET by id, then the PUT payload is built from the created resource:
\* resource_id[:8] raises for a value that cannot be sliced
crud_get ==
    /\ pc = "crud_get" /\ rsp.got
    /\ LET s == Validated(Here, rsp.r, "GET " \o lc.endpoint \o "/{id}", 200, "crud_put")
       IN Apply(IF s.pc = "crud_put" /\ lc.resource_id.t \notin {"str", "list"} THEN Esc(s) ELSE s)

crud_put ==
    /\ pc = "crud_put" /\ rsp.got
    /\ Apply(Validated(Here, rsp.r, "PUT " \o lc.endpoint \o "/{id}", 200, "crud_put_verify"))

crud_put_verify ==
    /\ pc = "crud_put_verify" /\ rsp.got
    /\ LET body == IF rsp.r.body.k = "json" THEN rsp.r.body.j ELSE EmptyDict
           status == IF rsp.r.exc \/ JsonRaises(rsp.r) THEN ERROR
                     ELSE IF Truthy(body) /\ body.t # "dict" THEN ERROR
                     ELSE IF /\ Truthy(body)
                             /\ Get(body, "displayName")
                                    = JStr(<<"Updated-">> \o First8(IdText(lc.resource_id)))
                     THEN PASS ELSE FAIL
       IN Apply(Cont(Here, "crud_patch",
                     <<ProbeResult("GET " \o lc.endpoint \o "/{id} after PUT", status, lc.phase)>>))

crud_patch ==
    /\ pc = "crud_patch" /\ rsp.got
    /\ Apply(Validated(Here, rsp.r, "PATCH " \o lc.endpoint \o "/{id}", 200, "crud_patch_verify"))

crud_patch_verify ==
    /\ pc = "crud_patch_verify" /\ rsp.got
    /\ LET body == IF rsp.r.body.k = "json" THEN rsp.r.body.j ELSE EmptyDict
           status == IF rsp.r.exc \/ JsonRaises(rsp.r) THEN ERROR
                     ELSE IF lc.resource_type = "Group"
                     THEN (IF rsp.r.status_code = 200 THEN PASS ELSE FAIL)
                     ELSE IF Truthy(body) /\ body.t # "dict" THEN ERROR
                     ELSE IF Truthy(body) /\ Get(body, "active") = JBool(FALSE)
                     THEN PASS ELSE FAIL
       IN Apply(Cont(Here, IF lc.resource_type = "Group" THEN "crud_add_member" ELSE "crud_delete",
                     <<ProbeResult("GET " \o lc.endpoint \o "/{id} after PATCH", status, lc.phase)>>))

\* faulty variant of StatusResult, to compare with: an exception is reported as FAIL
StatusResult_FailOnError(resp, name, expected_status, phase) ==
    <<ProbeResult(name, IF ~resp.exc /\ resp.status_code = expected_status THEN PASS ELSE FAIL, phase)>>

\* a request whose answer is only checked for its status, inside a try
StatusResult(resp, name, expected_status, phase) ==
    <<ProbeResult(name, IF resp.exc THEN ERROR
                        ELSE IF resp.status_code = expected_status THEN PASS ELSE FAIL, phase)>>

crud_add_member ==
    /\ pc = "crud_add_member" /\ rsp.got
    /\ Apply(Cont(Here, "crud_remove_members",
                  StatusResult(rsp.r, "PATCH " \o lc.endpoint \o "/{id} add member", 200, lc.phase)))

crud_remove_members ==
    /\ pc = "crud_remove_members" /\ rsp.got
    /\ Apply(Cont(Here, "crud_delete",
                  StatusResult(rsp.r, "PATCH " \o lc.endpoint \o "/{id} remove members", 200,
                               lc.phase)))

\* DELETE: a valid answer takes the resource off the cleanup list
crud_delete ==
    /\ pc = "crud_delete" /\ rsp.got
    /\ LET name == "DELETE " \o lc.endpoint \o "/{id}"
           v == validate_delete_response(opt.strict, rsp.r.status_code, rsp.r.body)
           s == Deleted(Here, "lifecycle", lc.endpoint, lc.resource_id, rsp.r)
           \* created_resources[:] = [r for r in created_resources if r["id"] != resource_id]
           Untrack(t, id) == [t EXCEPT !.created_resources = SelectSeq(@, LAMBDA r : r.id # id)]
       IN Apply(IF rsp.r.exc THEN Ret(s, <<ProbeResult(name, ERROR, lc.phase)>>)
                ELSE Cont(IF v.ok THEN Untrack(s, lc.resource_id) ELSE s,
                          "crud_delete_verify",
                          _validation_results(name, lc.phase, v.ok, v.errors)))

crud_delete_verify ==
    /\ pc = "crud_delete_verify" /\ rsp.got
    /\ Apply(Ret(Here, StatusResult(rsp.r, "GET " \o lc.endpoint \o "/{id} after DELETE (expect 404)",
                                    404, lc.phase)))

\* the end of one turn of the loop of test_agent_rapid_lifecycle
RapidNext(s, successes, failures) ==
    IF s.rp.i + 1 < Min(opt.rapid_agent_count, MAX_RAPID_AGENTS)
    THEN [s EXCEPT !.pc = "rapid_post", !.rp.i = @ + 1,
                   !.rp.successes = successes, !.rp.failures = failures]
    ELSE Ret([s EXCEPT !.rp.i = @ + 1, !.rp.successes = successes, !.rp.failures = failures],
             RapidResult(failures))

rapid_post ==
    /\ pc = "rapid_post" /\ rsp.got
    /\ LET body == Data(rsp.r)
           failed == \/ rsp.r.exc
                     \/ rsp.r.status_code # 201
                     \/ JsonRaises(rsp.r)
                     \/ ~Truthy(body)
                     \/ KeyInRaises(body)
                     \/ ~KeyIn("id", body)
                     \/ body.t # "dict"
       IN Apply(IF failed THEN RapidNext(Here, rp.successes, rp.failures + 1)
                ELSE [Here EXCEPT !.pc = "rapid_delete", !.rp.agent_id = body.v["id"]])

\* the agent is tracked for cleanup only when its DELETE is answered with another status
rapid_delete ==
    /\ pc = "rapid_delete" /\ rsp.got
    /\ LET s == Deleted(Here, "rapid", "/Agents", rp.agent_id, rsp.r)
       IN Apply(IF rsp.r.exc THEN RapidNext(s, rp.successes, rp.failures + 1)
                ELSE IF rsp.r.status_code = 204 THEN RapidNext(s, rp.successes + 1, rp.failures)
                ELSE RapidNext(Track(s, "/Agents", rp.agent_id), rp.successes, rp.failures + 1))

search_list ==
    /\ pc = "search_list" /\ rsp.got
    /\ LET name == "GET /Users (ListResponse)"
           v == validate_list_response(opt.strict, Data(rsp.r), rsp.r.status_code, rsp.r.headers)
       IN Apply(Cont(Here, "search_filter",
                     IF rsp.r.exc \/ JsonRaises(rsp.r) \/ v.raised
                     THEN <<ProbeResult(name, ERROR, "Phase 6 - Search")>>
                     ELSE _validation_results(name, "Phase 6 - Search", v.ok, v.errors)))

search_filter ==
    /\ pc = "search_filter" /\ rsp.got
    /\ LET data == Data(rsp.r)
           \* x == 0 in Python
           IsZero(x) == (x.t \in {"int", "float"} /\ x.v = 0) \/ (x.t = "bool" /\ ~x.v)
           status ==
              IF rsp.r.exc \/ JsonRaises(rsp.r) THEN ERROR
              ELSE IF rsp.r.status_code = 200 /\ Truthy(data) /\ data.t # "dict" THEN ERROR
              ELSE IF rsp.r.status_code = 200 /\ Truthy(data)
                      /\ IsZero(IF Has(data, "totalResults") THEN data.v["totalResults"]
                                ELSE JInt(-1))
              THEN PASS
              ELSE IF rsp.r.status_code = 200 THEN PASS
              ELSE IF rsp.r.status_code = 400 THEN WARN
              ELSE FAIL
       IN Apply(Cont(Here, "search_page",
                     <<ProbeResult("GET /Users?filter (no match)", status, "Phase 6 - Search")>>))

search_page ==
    /\ pc = "search_page" /\ rsp.got
    /\ LET name == "GET /Users?startIndex=1&count=1"
           data == Data(rsp.r)
           pass == <<ProbeResult(name, PASS, "Phase 6 - Search")>>
           \* data["itemsPerPage"] > 1 raises for a value that is no number
           IsNumber(x) == x.t \in {"int", "float", "bool"}
           Number(x) == IF x.t = "bool" THEN (IF x.v THEN 1 ELSE 0) ELSE x.v
           res ==
              IF rsp.r.exc THEN <<ProbeResult(name, ERROR, "Phase 6 - Search")>>
              ELSE IF rsp.r.status_code # 200 THEN <<ProbeResult(name, FAIL, "Phase 6 - Search")>>
              ELSE IF JsonRaises(rsp.r) THEN <<ProbeResult(name, ERROR, "Phase 6 - Search")>>
              ELSE IF ~Truthy(data) THEN pass
              ELSE IF KeyInRaises(data) THEN pass \o <<ProbeResult(name, ERROR, "Phase 6 - Search")>>
              ELSE IF ~KeyIn("itemsPerPage", data) THEN pass
              ELSE IF data.t # "dict" \/ ~IsNumber(data.v["itemsPerPage"])
              THEN pass \o <<ProbeResult(name, ERROR, "Phase 6 - Search")>>
              ELSE IF Number(data.v["itemsPerPage"]) > 1
              THEN pass \o <<ProbeResult("Pagination: itemsPerPage honors count", WARN, "Phase 6 - Search")>>
              ELSE pass
       IN Apply(Cont(Here, "search_count0", res))

search_count0 ==
    /\ pc = "search_count0" /\ rsp.got
    /\ LET data == Data(rsp.r)
           status ==
              IF rsp.r.exc THEN ERROR
              ELSE IF rsp.r.status_code # 200 THEN WARN
              ELSE IF JsonRaises(rsp.r) THEN ERROR
              ELSE IF Truthy(data) /\ data.t # "dict" THEN ERROR
              ELSE IF Truthy(data) /\ Get(data, "Resources").t = "list"
                      /\ Get(data, "Resources").v = <<>>
              THEN PASS ELSE WARN
       IN Apply(Ret(Here, <<ProbeResult("GET /Users?count=0 (boundary)", status, "Phase 6 - Search")>>))

\* a block of test_error_handling: everything happens inside its try
ErrorResults(resp, name, expected_status) ==
    LET v == validate_error_response(opt.strict, Data(resp), expected_status, resp.status_code)
    IN IF resp.exc \/ JsonRaises(resp) \/ v.raised THEN <<ProbeResult(name, ERROR, "Phase 7 - Error Handling")>>
       ELSE _validation_results(name, "Phase 7 - Error Handling", v.ok, v.errors)

error_get_nonexistent ==
    /\ pc = "err_get" /\ rsp.got
    /\ Apply(Cont(Here, "err_post_invalid",
                  ErrorResults(rsp.r, "GET /Users/nonexistent (expect 404)", 404)))

error_post_invalid ==
    /\ pc = "err_post_invalid" /\ rsp.got
    /\ Apply(Cont(Here, "err_post_missing",
                  ErrorResults(rsp.r, "POST /Users invalid body (expect 400)", 400)))

error_post_missing ==
    /\ pc = "err_post_missing" /\ rsp.got
    /\ Apply(Ret(Here, ErrorResults(rsp.r, "POST /Users missing userName (expect 400)", 400)))

\* faulty variant of _cleanup, to compare with: a DELETE that raises leaves no result
_cleanup_SilentOnError ==
    /\ pc = "cleanup" /\ rsp.got
    /\ LET resource == created_resources[idx]
           s == Deleted(Here, "cleanup", resource.endpoint, resource.id, rsp.r)
           res == IF rsp.r.exc THEN <<>>
                  ELSE StatusResult(rsp.r, "DELETE " \o resource.endpoint \o "/{rid}", 204, "Cleanup")
       IN IF idx > 1
          THEN Apply([Cont(s, "cleanup", res) EXCEPT !.idx = idx - 1])
          ELSE Apply(Cont(s, "report", res))

\* one turn of the loop of _cleanup, over reversed(created_resources)
_cleanup ==
    /\ pc = "cleanup" /\ rsp.got
    /\ LET resource == created_resources[idx]
           s == Deleted(Here, "cleanup", resource.endpoint, resource.id, rsp.r)
           res == StatusResult(rsp.r, "DELETE " \o resource.endpoint \o "/{rid}", 204, "Cleanup")
       IN IF idx > 1
          THEN Apply([Cont(s, "cleanup", res) EXCEPT !.idx = idx - 1])
          ELSE Apply(Cont(s, "report", res))

\* faulty variants of has_failures, to compare with: a WARN fails the run too; nothing fails the run
has_failures_WarnFails(rs) == \E i \in 1..Len(rs) : rs[i].status \in {FAIL, ERROR, WARN}
has_failures_Never(rs) == FALSE

has_failures(rs) == \E i \in 1..Len(rs) : rs[i].status \in {FAIL, ERROR}

\* print_results, then the exit code
run_probe_report ==
    /\ pc = "report"
    /\ printed' = "report"
    /\ exit_code' = (IF has_failures(results) THEN 1 ELSE 0)
    /\ pc' = "done"
    /\ UNCHANGED <<opt, fault, server_args, stores, non_conformances, stale_snapshots, uuid, attempts_total,
                   cl, rsp, phase_no, idx, lc, rp, results, created_resources, supported,
                   deletes, ever_created, posted, vcall, vres, sv, cx, srv, rep>>

\* the probe before a run, for the runs of the validator alone
ProbeIdle ==
    /\ opt = [accept_side_effects |-> FALSE, strict |-> TRUE, skip_cleanup |-> FALSE,
              resource_filter |-> <<>>, rapid_agent_count |-> 0]
    /\ fault = NoFault
    /\ server_args = [supported_resources |-> {}, non_conformances |-> [throttle_count |-> 0]]
    /\ stores = <<>>
    /\ non_conformances = [throttle_count |-> 0]
    /\ stale_snapshots = <<>>
    /\ uuid = 0
    /\ attempts_total = 0
    /\ cl = IdleClient
    /\ rsp = NoResp
    /\ pc = "idle"
    /\ phase_no = 0
    /\ idx = 0
    /\ lc = NoLifecycle
    /\ rp = NoRapid
    /\ results = <<>>
    /\ created_resources = <<>>
    /\ supported = {}
    /\ exit_code = -1
    /\ printed = "nothing"
    /\ deletes = <<>>
    /\ ever_created = {}
    /\ posted = {}

----------------------------------------------------------------------------
(* The four entry points on bounded inputs, each input given to a strict   *)
(* and to a compat validator                                               *)

VCall(fn, data, st, headers, rtype, body) ==
    [fn |-> fn, data |-> data, expected_status |-> st[1], actual_status |-> st[2],
     headers |-> headers, resource_type |-> rtype, body |-> body]

\* no call: the validator during a run of the probe
IdleCall == VCall("none", JNull, <<0, 0>>, <<>>, <<>>, EmptyBody)

NoResult == [done |-> FALSE, s |-> Raised, c |-> Raised]
Both(s, c) == [done |-> TRUE, s |-> s, c |-> c]

VInit ==
    /\ LET \* validate_resource_response: bodies with each required part present, absent
           \* or ill-typed, meta and headers agreeing or not, expected and other statuses
           ResourceCalls ==
               LET VersionA == <<"W/", Quote, "a", Quote>>
                   LocationA == <<"http://host", "/Users/", "1">>
                   LocationB == <<"http://wrong", "/Users/", "1">>
                   MetaFull == ("resourceType" :> JStr(<<"User">>)) @@ ("created" :> JStr(<<"t0">>))
                               @@ ("lastModified" :> JStr(<<"t0">>)) @@ ("version" :> JStr(VersionA))
                               @@ ("location" :> JStr(LocationA))
                   MetaVariants ==
                       {("resourceType" :> rt) @@ ("version" :> ver) @@ MetaFull :
                           rt \in {JStr(<<"User">>), JStr(<<"Group">>)},
                           ver \in {JStr(VersionA), JStr(<<"a">>), JInt(7)}}
                   MetaInputs ==
                       {JNull, JStr(<<"meta">>), EmptyDict}
                       \cup {JDict(Obj(DOMAIN m \ drop, m)) : m \in MetaVariants,
                               drop \in {{}, {"created"}, {"version"}, {"location"}, {"version", "location"}}}
                   ResourceFull == ("schemas" :> JList(<<JStr(Urn.User)>>)) @@ ("id" :> JStr(<<"1">>))
                                   @@ ("userName" :> JStr(<<"u">>)) @@ ("password" :> JStr(<<"secret">>))
                   SchemasInputs == {JList(<<>>), JList(<<JStr(Urn.User)>>),
                                     JList(<<JStr(Urn.Group), JStr(Urn.Enterprise)>>),
                                     JList(<<JStr(Urn.User), JList(<<>>)>>)}
                   ResourceInputs ==
                       {JNull, JList(<<JInt(1)>>)}
                       \cup {JDict(Obj((DOMAIN ResourceFull \cup {"meta"}) \ drop,
                                       ("schemas" :> sch) @@ ("meta" :> meta) @@ ResourceFull)) :
                               sch \in SchemasInputs, meta \in MetaInputs,
                               drop \in {{"password"}, {"password", "id"}, {}, {"password", "schemas"}}}
                   HeaderFull == ("Content-Type" :> CtScim) @@ ("ETag" :> VersionA) @@ ("Location" :> LocationA)
                   HeaderInputs ==
                       {<<>>}
                       \cup {Obj(DOMAIN HeaderFull \ drop, ("Content-Type" :> ct) @@ el @@ HeaderFull) :
                               ct \in {CtScim, CtJson \o <<"; charset=utf-8">>, <<"text/html">>},
                               el \in {<<>>, "ETag" :> <<Quote, "a", Quote>>, "Location" :> LocationB},
                               drop \in {{}, {"ETag"}, {"Location"}, {"ETag", "Location"}}}
                   StatusInputs == {<<200, 200>>, <<201, 201>>, <<201, 200>>, <<200, 404>>, <<204, 204>>}
                   \* a complete resource of each resource type, its meta.resourceType right or wrong
                   TypedInputs ==
                       {<<rt, JDict(("schemas" :> JList(<<JStr(Urn[rt])>>)) @@ ("id" :> JStr(<<"1">>))
                                   @@ ("meta" :> JDict(("resourceType" :>
                                           JStr(<<IF right THEN rt ELSE "Other">>)) @@ MetaFull)))>> :
                           rt \in {"User", "Group", "Agent", "AgenticApplication"}, right \in BOOLEAN}
               IN  {VCall("resource", d, st, h, rt, EmptyBody) :
                       d \in ResourceInputs, st \in StatusInputs, h \in HeaderInputs, rt \in {<<>>, <<"User">>}}
                   \cup {VCall("resource", d[2], st, h, rt, EmptyBody) :
                           d \in TypedInputs, st \in {<<200, 200>>, <<201, 201>>}, h \in HeaderInputs,
                           rt \in {<<>>, <<"User">>, <<"Agent">>}}

           \* validate_list_response
           ListCalls ==
               LET ListFull == ("schemas" :> JList(<<JStr(Urn.ListResponse)>>)) @@ ("totalResults" :> JInt(0))
                               @@ ("Resources" :> JList(<<>>)) @@ ("startIndex" :> JInt(1))
                               @@ ("itemsPerPage" :> JInt(0))
                   ListInputs ==
                       {JNull, JList(<<>>)}
                       \cup {JDict(Obj(DOMAIN ListFull \ drop,
                                       ("schemas" :> sch) @@ ("totalResults" :> tot) @@ ("Resources" :> res)
                                       @@ ("startIndex" :> si) @@ ("itemsPerPage" :> ipp) @@ ListFull)) :
                               sch \in {JList(<<JStr(Urn.ListResponse)>>), JList(<<>>), JNull,
                                        JStr(Urn.ListResponse)},
                               tot \in {JInt(0), [t |-> "float", v |-> 1], JStr(<<"0">>), JBool(TRUE)},
                               res \in {JList(<<>>), EmptyDict},
                               si \in {JInt(1), JStr(<<"1">>)}, ipp \in {JInt(0), [t |-> "float", v |-> 1]},
                               drop \in {{}, {"schemas"}, {"totalResults"}, {"Resources", "startIndex"},
                                         {"itemsPerPage"}}}
               IN  {VCall("list", d, <<200, st>>, h, <<>>, EmptyBody) :
                       d \in ListInputs, st \in {200, 500},
                       h \in {<<>>, "Content-Type" :> CtScim, "Content-Type" :> CtJson,
                              "Content-Type" :> <<"text/html">>}}

           \* validate_error_response
           ErrorCalls ==
               LET ErrorFull == ("schemas" :> JList(<<JStr(Urn.Error)>>)) @@ ("status" :> JStr(<<"404">>))
                                @@ ("detail" :> JStr(<<"d">>))
                   ErrorInputs ==
                       {JNull, JList(<<>>)}
                       \cup {JDict(Obj(DOMAIN ErrorFull \ drop, ("schemas" :> sch) @@ ErrorFull)) :
                               sch \in {JList(<<JStr(Urn.Error)>>), JList(<<>>), JNull},
                               drop \in {{}, {"schemas"}, {"status"}, {"schemas", "status"}}}
               IN  {VCall("error", d, st, <<>>, <<>>, EmptyBody) :
                       d \in ErrorInputs, st \in {<<404, 404>>, <<400, 400>>, <<400, 201>>, <<404, 200>>}}

           \* validate_delete_response
           DeleteCalls ==
               {VCall("delete", JNull, <<204, st>>, <<>>, <<>>, [k |-> b]) :
                   st \in {204, 200, 404}, b \in {"empty", "blank", "text", "json"}}

       IN  vcall \in ResourceCalls \cup ListCalls \cup ErrorCalls \cup DeleteCalls
    /\ vres = NoResult
    /\ sv = [plan |-> <<>>, self |-> [errors |-> 1, heap |-> <<<<>>>>], calls |-> <<>>]
    /\ cx = [pc |-> "idle"]
    /\ srv = [pc |-> "idle"]
    /\ rep = [pc |-> "idle"]
    /\ ProbeIdle

CallValidateResource ==
    /\ vcall.fn = "resource" /\ ~vres.done
    /\ vres' = Both(
          validate_resource_response(TRUE, vcall.data, vcall.expected_status,
                                     vcall.actual_status, vcall.headers, vcall.resource_type),
          validate_resource_response(FALSE, vcall.data, vcall.expected_status,
                                     vcall.actual_status, vcall.headers, vcall.resource_type))
    /\ UNCHANGED <<vcall, sv, cx, srv, rep, probe_vars>>

CallValidateList ==
    /\ vcall.fn = "list" /\ ~vres.done
    /\ vres' = Both(validate_list_response(TRUE, vcall.data, vcall.actual_status, vcall.headers),
                    validate_list_response(FALSE, vcall.data, vcall.actual_status, vcall.headers))
    /\ UNCHANGED <<vcall, sv, cx, srv, rep, probe_vars>>

CallValidateError ==
    /\ vcall.fn = "error" /\ ~vres.done
    /\ vres' = Both(
          validate_error_response(TRUE, vcall.data, vcall.expected_status, vcall.actual_status),
          validate_error_response(FALSE, vcall.data, vcall.expected_status, vcall.actual_status))
    /\ UNCHANGED <<vcall, sv, cx, srv, rep, probe_vars>>

CallValidateDelete ==
    /\ vcall.fn = "delete" /\ ~vres.done
    /\ vres' = Both(validate_delete_response(TRUE, vcall.actual_status, vcall.body),
                    validate_delete_response(FALSE, vcall.actual_status, vcall.body))
    /\ UNCHANGED <<vcall, sv, cx, srv, rep, probe_vars>>

SpecValidator ==
    VInit /\ [][CallValidateResource \/ CallValidateList \/ CallValidateError \/ CallValidateDelete]_vars

----------------------------------------------------------------------------
(* Payload validator (SCIMValidator).  A message is the token sequence the *)
(* f-string builds.  The lists an instance makes live in a heap, so that   *)
(* the list a call returned and self.errors can be the same object.        *)

ValidationError(message, path) == [message |-> message, path |-> path]

\* SCHEMAS.get(urn): the attributes of the registered schema, in their order;
\* of each schema the attributes that occur in the documents below
get_schema(urn) ==
    LET Attr(name, required, mutability, type, multiValued) ==
            [name |-> name, required |-> required, mutability |-> mutability, type |-> type,
             multiValued |-> multiValued, subAttributes |-> <<>>]
        id == Attr("id", FALSE, "readOnly", "string", FALSE)
        meta == Attr("meta", FALSE, "readOnly", "complex", FALSE)
        displayName == Attr("displayName", FALSE, "readWrite", "string", FALSE)
        Named == <<Attr("name", TRUE, "readWrite", "string", FALSE), displayName>>
    IN  CASE urn.t = "str" /\ urn.v = Urn.User ->
                [found |-> TRUE, attributes |->
                    <<Attr("userName", TRUE, "readWrite", "string", FALSE),
                      Attr("name", FALSE, "readWrite", "complex", FALSE),
                      displayName,
                      Attr("emails", FALSE, "readWrite", "complex", TRUE),
                      id, meta>>]
          [] urn.t = "str" /\ urn.v = Urn.Group ->
                [found |-> TRUE, attributes |->
                    <<Attr("displayName", TRUE, "readWrite", "string", FALSE),
                      Attr("members", FALSE, "readWrite", "complex", TRUE), id, meta>>]
          [] urn.t = "str" /\ urn.v = Urn.Enterprise ->
                [found |-> TRUE, attributes |->
                    <<Attr("employeeNumber", FALSE, "readWrite", "string", FALSE),
                      Attr("manager", FALSE, "readWrite", "complex", FALSE)>>]
          [] urn.t = "str" /\ urn.v = Urn.Agent ->
                [found |-> TRUE, attributes |-> Named \o <<id, meta>>]
          [] urn.t = "str" /\ urn.v = Urn.AgenticApplication ->
                [found |-> TRUE, attributes |-> Named \o <<id, meta>>]
          [] OTHER -> [found |-> FALSE, attributes |-> <<>>]

\* errors: self.errors when the call begins.  The keys of a document come in
\* the order schemas, id, userName, displayName, name, emails, the extension.
_validate_full_resource(errors, data) ==
    LET E(message) == ValidationError(message, <<>>)
        schemas == Get(data, "schemas")
        In(urn) == \E i \in 1..Len(schemas.v) : schemas.v[i] = JStr(urn)
        is_user == In(Urn.User)
        is_group == In(Urn.Group)
        is_agent == In(Urn.Agent)
        is_agentic_application == In(Urn.AgenticApplication)
        \* startswith("urn:ietf:params:scim:schemas:extension:"), of a registered URN
        is_extension(schema_urn) == schema_urn.v = Urn.Enterprise
        full_path(schema_urn, attr_name) ==
            IF is_extension(schema_urn) THEN schema_urn.v \o <<".", attr_name>> ELSE <<attr_name>>
        _validate_complex_attribute(value, attr_def, path) ==
            IF value.t # "dict" THEN <<>>
            ELSE LET missing == SelectSeq(attr_def.subAttributes,
                                          LAMBDA sub : sub.required /\ ~Has(value, sub.name))
                 IN  [i \in 1..Len(missing) |->
                        ValidationError(<<"Missing required sub-attribute: '", missing[i].name, "' in '">>
                                            \o path \o <<"'">>,
                                        path \o <<".", missing[i].name>>)]
        _validate_schema_attributes(schema_urn, schema) ==
            LET extension_data ==
                    IF is_extension(schema_urn)
                    THEN (IF Has(data, schema_urn.v[1]) THEN data.v[schema_urn.v[1]] ELSE EmptyDict)
                    ELSE data
                OfAttr(attr_def) ==
                    LET attr_name == attr_def.name
                        path == full_path(schema_urn, attr_name)
                        value == extension_data.v[attr_name]
                        RECURSIVE Items(_)
                        Items(n) ==
                            IF n > Len(value.v) THEN <<>>
                            ELSE _validate_complex_attribute(
                                    value.v[n], attr_def, path \o <<"[", ToString(n - 1), "]">>)
                                 \o Items(n + 1)
                    IN  (IF attr_def.required /\ ~Has(extension_data, attr_name)
                         THEN <<ValidationError(<<"Missing required attribute: '", attr_name,
                                                  "' (schema: ">> \o schema_urn.v \o <<")">>, path)>>
                         ELSE <<>>)
                        \o (IF Has(extension_data, attr_name) /\ attr_def.type = "complex"
                            THEN IF attr_def.multiValued
                                 THEN IF value.t # "list"
                                      THEN <<ValidationError(<<"Attribute '", attr_name,
                                                               "' must be an array (multiValued)">>, path)>>
                                      ELSE Items(1)
                                 ELSE _validate_complex_attribute(value, attr_def, path)
                            ELSE <<>>)
                RECURSIVE Attrs(_)
                Attrs(n) == IF n > Len(schema.attributes) THEN <<>>
                            ELSE OfAttr(schema.attributes[n]) \o Attrs(n + 1)
            IN  IF is_extension(schema_urn) /\ extension_data.t # "dict"
                THEN <<ValidationError(<<"Extension schema '">> \o schema_urn.v \o <<"' must be an object">>,
                                       schema_urn.v)>>
                ELSE Attrs(1)
        RECURSIVE EachSchema(_)
        EachSchema(n) ==
            IF n > Len(schemas.v) THEN <<>>
            ELSE LET schema_urn == schemas.v[n]
                     schema == get_schema(schema_urn)
                 IN  (IF ~schema.found THEN <<E(<<"Unknown schema URN: ">> \o schema_urn.v)>>
                      ELSE _validate_schema_attributes(schema_urn, schema))
                     \o EachSchema(n + 1)
        Missing(kind, attr_name) ==
            <<E(<<kind, " resource missing required attribute: '", attr_name, "'">>)>>
        _validate_named_specific(kind) ==
            IF ~Has(data, "name") THEN Missing(kind, "name")
            ELSE IF EqStr(Get(data, "name"), <<>>)
                 THEN <<E(<<kind, " resource 'name' attribute must be non-empty">>)>>
                 ELSE <<>>
        specific ==
            CASE is_user -> IF ~Has(data, "userName") THEN Missing("User", "userName") ELSE <<>>
              [] is_group -> IF ~Has(data, "displayName") THEN Missing("Group", "displayName") ELSE <<>>
              [] is_agent -> _validate_named_specific("Agent")
              [] OTHER -> _validate_named_specific("AgenticApplication")
        RECURSIVE _check_immutable_attributes(_)
        _check_immutable_attributes(n) ==
            IF n > Len(schemas.v) THEN <<>>
            ELSE LET schema_urn == schemas.v[n]
                     schema == get_schema(schema_urn)
                     check_data ==
                        IF is_extension(schema_urn)
                        THEN (IF Has(data, schema_urn.v[1]) THEN data.v[schema_urn.v[1]] ELSE EmptyDict)
                        ELSE data
                     set == SelectSeq(schema.attributes,
                                      LAMBDA a : a.mutability = "readOnly" /\ Has(check_data, a.name))
                 IN  [i \in 1..Len(set) |->
                        ValidationError(<<"Immutable attribute '", set[i].name,
                                          "' should not be set by client (mutability: readOnly)">>,
                                        full_path(schema_urn, set[i].name))]
                     \o _check_immutable_attributes(n + 1)
        _check_null_semantics ==
            LET keys == SelectSeq(<<"schemas", "id", "userName", "displayName", "name", "emails",
                                    Urn.Enterprise[1]>>,
                                  LAMBDA k : Has(data, k) /\ data.v[k].t = "null")
            IN  [i \in 1..Len(keys) |->
                    ValidationError(<<"Attribute '", keys[i], "' has null value. Use PATCH 'remove' ",
                                      "operation to clear attributes instead">>, <<keys[i]>>)]
        all == errors \o EachSchema(1) \o specific \o _check_immutable_attributes(1)
                      \o _check_null_semantics
    IN  IF ~Has(data, "schemas")
        THEN Returned(FALSE, Append(errors, E(<<"Missing required field: 'schemas'">>)))
        ELSE IF schemas.t # "list" \/ schemas.v = <<>>
        THEN Returned(FALSE, Append(errors, E(<<"'schemas' must be a non-empty array">>)))
        ELSE IF ~is_user /\ ~is_group /\ ~is_agent /\ ~is_agentic_application
        THEN Returned(FALSE, Append(errors, E(<<"Invalid schema URN. Must include '">> \o Urn.User
                \o <<"', '">> \o Urn.Group \o <<"', '">> \o Urn.Agent \o <<"', or '">>
                \o Urn.AgenticApplication \o <<"'">>)))
        ELSE Returned(all = <<>>, all)

_validate_patch(errors, data) ==
    LET E(message) == ValidationError(message, <<>>)
        schemas == Get(data, "schemas")
        errors1 ==
            IF UrnIn(Urn.PatchOp, schemas) THEN errors
            ELSE Append(errors, E(<<"PATCH operation must include schema: '">> \o Urn.PatchOp \o <<"'">>))
        operations == Get(data, "Operations")
        Op(index, text) == <<"Operation ", ToString(index), text>>
        RECURSIVE Each(_, _, _)
        Each(index, errs, seen_paths) ==
            IF index >= Len(operations.v) THEN Returned(errs = <<>>, errs)
            ELSE LET op == operations.v[index + 1]
                     op_type == Get(op, "op")
                     path == Get(op, "path")
                     errs1 ==
                        IF EqStr(op_type, <<"add">>) \/ EqStr(op_type, <<"remove">>)
                                \/ EqStr(op_type, <<"replace">>)
                        THEN errs
                        ELSE Append(errs, E(Op(index, ": invalid 'op' value '") \o op_type.v
                                                \o <<"'. Must be one of: add, remove, replace">>))
                     errs2 ==
                        IF Truthy(path) /\ path \in seen_paths
                        THEN Append(errs1, E(Op(index, ": duplicate path '") \o path.v
                                                \o <<"' in PATCH operations">>))
                        ELSE errs1
                     errs3 ==
                        IF EqStr(op_type, <<"remove">>)
                        THEN (IF ~Has(op, "path")
                              THEN Append(errs2, E(Op(index, ": 'remove' operation requires 'path'")))
                              ELSE errs2)
                        ELSE IF EqStr(op_type, <<"add">>) \/ EqStr(op_type, <<"replace">>)
                        THEN (IF ~Has(op, "value")
                              THEN Append(errs2, E(Op(index, ": '") \o op_type.v
                                                      \o <<"' operation requires 'value'">>))
                              ELSE errs2)
                        ELSE errs2
                 IN  IF op.t # "dict"
                     THEN Each(index + 1, Append(errs, E(Op(index, " must be an object"))), seen_paths)
                     ELSE IF ~Truthy(op_type)
                     THEN Each(index + 1, Append(errs, E(Op(index, ": missing required field 'op'"))),
                               seen_paths)
                     \* path in seen_paths: TypeError for an unhashable path
                     ELSE IF Truthy(path) /\ path.t \in {"list", "dict"}
                     THEN [raised |-> TRUE, ok |-> FALSE, errors |-> errs1]
                     ELSE Each(index + 1, errs3, IF Truthy(path) THEN seen_paths \cup {path} ELSE seen_paths)
    IN  IF ~Has(data, "schemas")
        THEN Returned(FALSE, Append(errors, E(<<"Missing required field: 'schemas'">>)))
        \* PatchOp not in schemas: TypeError for a value that is no container
        ELSE IF InRaises(schemas)
        THEN [raised |-> TRUE, ok |-> FALSE, errors |-> errors]
        ELSE IF ~Has(data, "Operations")
        THEN Returned(FALSE, Append(errors1, E(<<"Missing required field: 'Operations'">>)))
        ELSE IF operations.t # "list"
        THEN Returned(FALSE, Append(errors1, E(<<"'Operations' must be an array">>)))
        ELSE IF operations.v = <<>>
        THEN Returned(FALSE, Append(errors1, E(<<"'Operations' array cannot be empty">>)))
        ELSE Each(0, errors1, {})

\* SCIMValidator(): errors is the first list of the heap; json_lines is written and never read
SCIMValidator == [errors |-> 1, heap |-> <<<<>>>>]

\* faulty variant of validate, to compare with: self.errors is not replaced by a new list
validate_KeepsErrors(self, data, operation) ==
    LET r == IF operation = "patch" THEN _validate_patch(self.heap[self.errors], data)
             ELSE _validate_full_resource(self.heap[self.errors], data)
    IN  [self |-> [self EXCEPT !.heap[self.errors] = r.errors], data |-> data,
         raised |-> r.raised, ok |-> r.ok, errors |-> self.errors]

\* the instance and the document after the call, and what the call gave:
\* (ok, the list self.errors), or an exception
validate(self, data, operation) ==
    LET errors == Len(self.heap) + 1
        r == IF operation = "patch" THEN _validate_patch(<<>>, data)
             ELSE _validate_full_resource(<<>>, data)
    IN  [self |-> [errors |-> errors, heap |-> Append(self.heap, r.errors)], data |-> data,
         raised |-> r.raised, ok |-> r.ok, errors |-> errors]

MaxSchemas == 2
MaxOperations == 2

\* the calls made on one instance: a document, any document, then the first one again
Plans ==
    LET Tuples(S, n) == UNION {[1..k -> S] : k \in 1..n}
        D(schemas, body) == JDict(("schemas" :> schemas) @@ body)
        s == JStr(<<"x">>)
        Bodies ==
            {<<>>, "userName" :> s, ("userName" :> s) @@ ("displayName" :> s), "displayName" :> s,
             "name" :> s, "name" :> JStr(<<>>), ("userName" :> s) @@ ("id" :> s),
             ("userName" :> s) @@ ("displayName" :> JNull), ("userName" :> s) @@ ("emails" :> s),
             ("userName" :> s) @@ (Urn.Enterprise[1] :> s),
             ("userName" :> s) @@ ("name" :> s), ("userName" :> s) @@ ("name" :> EmptyDict),
             ("userName" :> s) @@ (Urn.Enterprise[1] :> JDict("manager" :> s))}
        Names == {Urn.User, Urn.Group, Urn.Agent, Urn.AgenticApplication, Urn.Enterprise, <<"urn:x">>}
        Full ==
            {D(JList([i \in DOMAIN u |-> JStr(u[i])]), b) : u \in Tuples(Names, MaxSchemas), b \in Bodies}
            \cup {JDict("userName" :> s), D(JList(<<>>), "userName" :> s), D(JStr(Urn.User), "userName" :> s)}
        O(op, rest) == JDict(("op" :> JStr(<<op>>)) @@ rest)
        a == "path" :> JStr(<<"a">>)
        v == "value" :> JInt(1)
        Ops ==
            {O("add", a @@ v), O("remove", a), O("remove", <<>>), O("add", a),
             O("replace", v), O("replace", ("path" :> JStr(<<>>)) @@ v), O("remove", "path" :> JNull),
             O("Replace", ("path" :> JStr(<<"b">>)) @@ v), JDict(a @@ v),
             O("replace", ("path" :> JList(<<JStr(<<"a">>)>>)) @@ v), s}
        P == JList(<<JStr(Urn.PatchOp)>>)
        one == JList(<<O("remove", a)>>)
        Patch ==
            {D(P, "Operations" :> JList(o)) : o \in Tuples(Ops, MaxOperations)}
            \cup {D(sch, "Operations" :> one) :
                    sch \in {JList(<<>>), JList(<<JStr(Urn.User)>>), JStr(Urn.PatchOp),
                             JStr(Urn.PatchOp \o <<"x">>), JNull}}
            \cup {JDict("Operations" :> one), D(P, <<>>), D(P, "Operations" :> JList(<<>>)),
                  D(P, "Operations" :> EmptyDict), D(JList(<<>>), "Operations" :> JList(<<>>))}
        Call(data, operation) == [data |-> data, operation |-> operation]
        Calls == {Call(d, "full") : d \in Full} \cup {Call(d, "patch") : d \in Patch}
        First ==
            {Call(D(JList(<<JStr(Urn.User)>>), "userName" :> s), "full"),
             Call(D(JList(<<JStr(<<"urn:x">>)>>), "userName" :> s), "full"),
             Call(D(P, "Operations" :> one), "patch"),
             Call(D(P, "Operations" :> JList(<<O("add", a), O("remove", a)>>)), "patch"),
             Call(D(P, "Operations" :> JList(<<O("add", a),
                                               O("replace", ("path" :> JList(<<JStr(<<"a">>)>>)) @@ v)>>)),
                  "patch")}
    IN  {<<c1, c2, c1>> : c1 \in First, c2 \in Calls}

PInit ==
    /\ sv \in {[plan |-> p, self |-> SCIMValidator, calls |-> <<>>] : p \in Plans}
    /\ cx = [pc |-> "idle"]
    /\ srv = [pc |-> "idle"]
    /\ rep = [pc |-> "idle"]
    /\ vcall = IdleCall
    /\ vres = NoResult
    /\ ProbeIdle

\* the next call of the plan; kept with it, the list it returned as it was then
CallValidate ==
    /\ sv.plan # <<>>
    /\ LET call == Head(sv.plan)
           r == validate(sv.self, call.data, call.operation)
       IN  sv' = [plan |-> Tail(sv.plan), self |-> r.self,
                  calls |-> Append(sv.calls,
                                   [data |-> call.data, operation |-> call.operation, after |-> r.data,
                                    raised |-> r.raised, ok |-> r.ok, errors |-> r.errors,
                                    returned |-> r.self.heap[r.errors]])]
    /\ UNCHANGED <<vcall, vres, cx, srv, rep, probe_vars>>

SpecPayload == PInit /\ [][CallValidate]_vars

----------------------------------------------------------------------------
(* The probe command and the transport settings of the client it builds.   *)
(* A command line is a sequence of words; an option that was not given is  *)
(* None, written <<>>, and a value v is <<v>>.                             *)

\* the word after the flag; None when the flag is absent or is the last word
_get_flag_value(args, flag) ==
    IF \E i \in 1..Len(args) : args[i] = flag
    THEN LET index == CHOOSE i \in 1..Len(args) : args[i] = flag /\ \A j \in 1..(i - 1) : args[j] # flag
         IN  IF index + 1 <= Len(args) THEN <<args[index + 1]>> ELSE <<>>
    ELSE <<>>

\* kwargs["verify"] and kwargs["proxies"] of requests.request
_request_with_requests(self) ==
    [verify |-> IF self.ca_bundle # <<>> THEN self.ca_bundle
                ELSE IF self.tls_no_verify THEN <<FALSE>> ELSE <<TRUE>>,
     proxies |-> self.proxy]

\* the SSL context built and the opener; opener.open is called without the context,
\* so a request through a proxy verifies against the default trust store
_request_with_urllib(self) ==
    LET ctx == IF self.tls_no_verify THEN <<FALSE>>
               ELSE IF self.ca_bundle # <<>> THEN self.ca_bundle ELSE <<TRUE>>
        opener == self.proxy # <<>>
    IN  [verify |-> IF opener THEN <<TRUE>> ELSE ctx, proxies |-> self.proxy]

CInit ==
    LET Flag(given, words) == IF given THEN words ELSE <<>>
        Lines ==
            {<<"https://scim.example/v2">> \o Flag(t, <<"--token", "secret">>)
                \o Flag(n, <<"--tls-no-verify">>) \o Flag(c, <<"--compat">>)
                \o Flag(a, <<"--i-accept-side-effects">>) \o Flag(s, <<"--timeout", "5">>)
                \o Flag(p, <<"--proxy", "http://proxy:8080">>) \o Flag(b, <<"--ca-bundle", "ca.pem">>) :
             t, n, c, a, s, p, b \in BOOLEAN}
        NoClient ==
            [base_url |-> "", token |-> <<>>, tls_no_verify |-> FALSE, timeout |-> 0, proxy |-> <<>>,
             ca_bundle |-> <<>>]
        \* run_probe called as a library function
        Kwargs ==
            {[base_url |-> "https://scim.example/v2", token |-> <<>>, tls_no_verify |-> n,
              strict |-> TRUE, accept_side_effects |-> TRUE, timeout |-> 30,
              proxy |-> Flag(p, <<"http://proxy:8080">>), ca_bundle |-> Flag(b, <<"ca.pem">>)] :
             n, p, b \in BOOLEAN}
        Idle == [HAS_CLICK |-> FALSE, HAS_REQUESTS |-> FALSE, pc |-> "cli", args |-> <<>>,
                 run |-> NoClient @@ [strict |-> TRUE, accept_side_effects |-> FALSE],
                 client |-> NoClient, sent |-> [verify |-> <<>>, proxies |-> <<>>]]
    IN  /\ cx \in {[Idle EXCEPT !.HAS_CLICK = k, !.HAS_REQUESTS = r, !.args = l] :
                        k, r \in BOOLEAN, l \in Lines}
                  \cup {[Idle EXCEPT !.HAS_REQUESTS = r, !.pc = "run", !.run = kw] : r \in BOOLEAN, kw \in Kwargs}
        /\ sv = [plan |-> <<>>, self |-> SCIMValidator, calls |-> <<>>]
        /\ srv = [pc |-> "idle"]
        /\ rep = [pc |-> "idle"]
        /\ vcall = IdleCall
        /\ vres = NoResult
        /\ ProbeIdle

\* the Click command: Click gives each option its value, a flag its presence; the call of run_probe
probe ==
    /\ cx.pc = "cli" /\ cx.HAS_CLICK
    /\ LET timeout == _get_flag_value(cx.args, "--timeout")
       IN  cx' = [cx EXCEPT !.pc = "run",
                    !.run = [base_url |-> cx.args[1],
                             token |-> _get_flag_value(cx.args, "--token"),
                             tls_no_verify |-> \E i \in 1..Len(cx.args) : cx.args[i] = "--tls-no-verify",
                             strict |-> ~(\E i \in 1..Len(cx.args) : cx.args[i] = "--compat"),
                             accept_side_effects |->
                                \E i \in 1..Len(cx.args) : cx.args[i] = "--i-accept-side-effects",
                             timeout |-> IF timeout = <<"5">> THEN 5 ELSE 30,
                             proxy |-> <<>>,
                             ca_bundle |-> <<>>]]
    /\ UNCHANGED <<vcall, vres, sv, srv, rep, probe_vars>>

_probe_no_click ==
    /\ cx.pc = "cli" /\ ~cx.HAS_CLICK
    /\ LET args == cx.args
           url == args[1]
           token == _get_flag_value(args, "--token")
           tls_no_verify == \E i \in 1..Len(args) : args[i] = "--tls-no-verify"
           strict == ~(\E i \in 1..Len(args) : args[i] = "--compat")
           accept_side_effects == \E i \in 1..Len(args) : args[i] = "--i-accept-side-effects"
           timeout_str == _get_flag_value(args, "--timeout")
           timeout == IF timeout_str = <<"5">> THEN 5 ELSE 30
           proxy == _get_flag_value(args, "--proxy")
           ca_bundle == _get_flag_value(args, "--ca-bundle")
       IN  cx' = [cx EXCEPT !.pc = "run",
                    !.run = [base_url |-> url, token |-> token, tls_no_verify |-> tls_no_verify,
                             strict |-> strict, accept_side_effects |-> accept_side_effects,
                             timeout |-> timeout, proxy |-> <<>>, ca_bundle |-> <<>>]]
    /\ UNCHANGED <<vcall, vres, sv, srv, rep, probe_vars>>

\* run_probe up to the client it builds; without consent it returns 1
run_probe_client ==
    /\ cx.pc = "run"
    /\ cx' = IF ~cx.run.accept_side_effects THEN [cx EXCEPT !.pc = "refused"]
             ELSE [cx EXCEPT !.pc = "client",
                             !.client = [base_url |-> cx.run.base_url, token |-> cx.run.token,
                                         tls_no_verify |-> cx.run.tls_no_verify,
                                         timeout |-> cx.run.timeout, proxy |-> cx.run.proxy,
                                         ca_bundle |-> cx.run.ca_bundle]]
    /\ UNCHANGED <<vcall, vres, sv, srv, rep, probe_vars>>

\* a request of the run: the back end that is installed sends it
send_request ==
    /\ cx.pc = "client"
    /\ cx' = [cx EXCEPT !.pc = "sent",
                        !.sent = IF cx.HAS_REQUESTS THEN _request_with_requests(cx.client)
                                 ELSE _request_with_urllib(cx.client)]
    /\ UNCHANGED <<vcall, vres, sv, srv, rep, probe_vars>>

SpecCli == CInit /\ [][probe \/ _probe_no_click \/ run_probe_client \/ send_request]_vars

----------------------------------------------------------------------------
(* Runs of the probe: against the reference server as it is, with one of    *)
(* its non-conformance flags, and with a fault between client and server    *)

MaxThrottle == 5
MaxRapid == 2
MaxFaultAt == 22

\* non_conformances.get(flag) of an absent flag is None
NoKnobs ==
    [missing_id |-> FALSE, missing_meta |-> FALSE, missing_meta_fields |-> FALSE,
     password_in_response |-> FALSE, stale_after_put |-> FALSE, reject_filters |-> FALSE,
     content_type_json |-> FALSE, throttle_count |-> 0]

AllResources == {"User", "Group", "Agent", "AgenticApplication"}

\* MockSCIMServer.__init__: an empty store per supported resource type
EmptyStores(supported_resources) == [e \in {rt \o "s" : rt \in supported_resources} |-> <<>>]

Options(accept, strict, skip_cleanup, resource_filter, rapid_agent_count) ==
    [accept_side_effects |-> accept, strict |-> strict, skip_cleanup |-> skip_cleanup,
     resource_filter |-> resource_filter, rapid_agent_count |-> rapid_agent_count]

\* a run: the options of run_probe, the server's resource types and flags, the fault
Runs ==
    LET \* a 500 on the first POST of a lifecycle, and then: the retry, the diagnostic
        \* POST or the DELETE of the diagnostic resource answered otherwise
        Scripts ==
            {<<"s500", "s202">>, <<"s500", "exc">>, <<"s500", "shape">>,
             <<"s500", "s500", "s202">>, <<"s500", "s500", "shape">>, <<"s500", "s500", "nonjson">>,
             <<"s500", "s500", "none", "exc">>, <<"s500", "s500", "none", "s500">>,
             <<"b500", "s500", "s500">>,
             \* two DELETEs answered 500, and later a DELETE that raises
             <<"s500", "none", "none", "s500", "none", "none", "none", "none", "none", "none",
               "none", "exc">>}
        BoolKnobs ==
            {"missing_id", "missing_meta", "missing_meta_fields", "password_in_response",
             "stale_after_put", "reject_filters", "content_type_json"}
        KnobSettings ==
            {NoKnobs} \cup {[NoKnobs EXCEPT ![k] = TRUE] : k \in BoolKnobs}
            \cup {[NoKnobs EXCEPT !.throttle_count = n] : n \in 1..MaxThrottle}
        SupportedSettings == {AllResources, {"User", "Group"}}
        Filters == {<<>>} \cup {<<rt>> : rt \in AllResources}
        Faults ==
            {Fault(k, at, 1, FALSE) :
                k \in {"exc", "s500", "nonjson", "nondict", "empty", "shape"}, at \in 1..MaxFaultAt}
            \cup {Fault("s500", at, n, FALSE) : at \in 1..MaxFaultAt, n \in {2, 3}}
            \cup {Fault("exc", at, 1, TRUE) : at \in 1..MaxFaultAt}
            \cup {Fault(k, at, 1, FALSE) : k \in {"s202", "s400"}, at \in 1..MaxFaultAt}
            \cup {Fault("ctype", at, 1, TRUE) : at \in 1..MaxFaultAt}
            \cup {Fault("lenient", 1, 1, TRUE)}
            \cup {[Fault("script", at, Len(sc), FALSE) EXCEPT !.script = sc] :
                    at \in 1..MaxFaultAt, sc \in Scripts}
    IN  {[opt |-> Options(TRUE, strict, skip, rf, n), sup |-> sup, nc |-> nc, fault |-> NoFault] :
            strict \in BOOLEAN, skip \in BOOLEAN, rf \in Filters, n \in 0..MaxRapid,
            sup \in SupportedSettings, nc \in KnobSettings}
        \cup {[opt |-> Options(TRUE, strict, FALSE, rf, 1), sup |-> AllResources, nc |-> NoKnobs,
               fault |-> f] :
            strict \in BOOLEAN, rf \in {<<"User">>, <<"Group">>, <<"Agent">>}, f \in Faults}
        \cup {[opt |-> Options(FALSE, strict, skip, rf, MaxRapid), sup |-> AllResources,
               nc |-> NoKnobs, fault |-> NoFault] :
            strict \in BOOLEAN, skip \in BOOLEAN, rf \in Filters}

Init ==
    /\ \E run \in Runs :
          /\ opt = run.opt
          /\ fault = run.fault
          /\ server_args = [supported_resources |-> run.sup, non_conformances |-> run.nc]
          /\ stores = EmptyStores(run.sup)
          /\ non_conformances = run.nc
    /\ stale_snapshots = <<>>
    /\ uuid = 1
    /\ attempts_total = 0
    /\ cl = IdleClient
    /\ rsp = NoResp
    /\ pc = "start"
    /\ phase_no = 1
    /\ idx = 0
    /\ lc = NoLifecycle
    /\ rp = NoRapid
    /\ results = <<>>
    /\ created_resources = <<>>
    /\ supported = {}
    /\ exit_code = -1
    /\ printed = "nothing"
    /\ deletes = <<>>
    /\ ever_created = {}
    /\ posted = {}
    /\ vcall = IdleCall
    /\ vres = NoResult
    /\ sv = [plan |-> <<>>, self |-> SCIMValidator, calls |-> <<>>]
    /\ cx = [pc |-> "idle"]
    /\ srv = [pc |-> "idle"]
    /\ rep = [pc |-> "idle"]

Next ==
    \/ run_probe_gate
    \/ run_probe_begin
    \/ _request
    \/ test_discovery
    \/ discover_supported_resources
    \/ run_probe_phase
    \/ crud_post
    \/ _retry_post_on_500
    \/ _diagnose_content_type_rejection
    \/ diagnose_delete
    \/ crud_get
    \/ crud_put
    \/ crud_put_verify
    \/ crud_patch
    \/ crud_patch_verify
    \/ crud_add_member
    \/ crud_remove_members
    \/ crud_delete
    \/ crud_delete_verify
    \/ rapid_post
    \/ rapid_delete
    \/ search_list
    \/ search_filter
    \/ search_page
    \/ search_count0
    \/ error_get_nonexistent
    \/ error_post_invalid
    \/ error_post_missing
    \/ _cleanup
    \/ run_probe_report

Spec == Init /\ [][Next]_vars

----------------------------------------------------------------------------
(* The reference server under direct requests: clients that send while     *)
(* others wait for their answer, the queue of the listening socket, and    *)
(* the handler of a request in steps.  srv.before_put and srv.last are     *)
(* history: of each resource the data it held before its last PUT, kept    *)
(* until a GET of the resource is answered, and the last exchange.         *)

MaxRequests == 5
MaxServerThrottle == 2

\* MockSCIMServer(non_conformances = ...) started, no request sent yet
SInit ==
    /\ \E stale \in BOOLEAN, n \in 0..MaxServerThrottle :
          LET nc == [NoKnobs EXCEPT !.stale_after_put = stale, !.throttle_count = n]
          IN  srv = [pc |-> "serving", args |-> nc, stores |-> EmptyStores({"User"}),
                     non_conformances |-> nc, stale_snapshots |-> <<>>, uuid |-> 1,
                     waiting |-> {}, queue |-> <<>>, handlers |-> {}, sent |-> 0,
                     answered |-> 0, throttled |-> 0, before_put |-> <<>>,
                     last |-> [req |-> Request("", Path("", <<>>, ""), <<>>, JNull),
                               resp |-> TransportError, before |-> <<>>, snap |-> <<>>]]
    /\ rep = [pc |-> "idle"]
    /\ cx = [pc |-> "idle"]
    /\ sv = [plan |-> <<>>, self |-> SCIMValidator, calls |-> <<>>]
    /\ vcall = IdleCall
    /\ vres = NoResult
    /\ ProbeIdle

\* a client that waits for no answer sends a request: its connection joins the
\* queue.  The requests: to create a user, and to replace, read and delete the
\* first and the second user the server creates.
client_request ==
    /\ srv.pc = "serving" /\ srv.sent < MaxRequests
    /\ LET User(userName) ==
               JDict(("schemas" :> JList(<<JStr(Urn.User)>>)) @@ ("userName" :> JStr(<<userName>>)))
           Users(rid) == Path("/Users", rid, "")
           ServerRequests ==
               {Request("POST", Users(<<>>), <<>>, User("a")),
                Request("PUT", Users(NewId(1)), <<>>, User("b")),
                Request("PUT", Users(NewId(1)), <<>>, User("c")),
                Request("GET", Users(NewId(1)), <<>>, JNull),
                Request("GET", Users(NewId(2)), <<>>, JNull),
                Request("GET", Users(<<>>), <<>>, JNull),
                Request("DELETE", Users(NewId(1)), <<>>, JNull)}
       IN  \E c \in {"c1", "c2"} \ srv.waiting, req \in ServerRequests :
               srv' = [srv EXCEPT !.waiting = @ \cup {c}, !.sent = @ + 1,
                                  !.queue = Append(@, [client |-> c, req |-> req])]
    /\ UNCHANGED <<vcall, vres, sv, cx, rep, probe_vars>>

\* faulty variant of CanAccept, to compare with: a server that hands every
\* connection to a thread of its own
CanAccept_Threading(handlers) == TRUE

\* HTTPServer.serve_forever: the handler of a connection has returned before the
\* next connection is accepted
CanAccept(handlers) == handlers = {}

serve_forever ==
    /\ srv.pc = "serving" /\ srv.queue # <<>> /\ CanAccept(srv.handlers)
    /\ srv' = [srv EXCEPT !.queue = Tail(@),
                          !.handlers = @ \cup {[client |-> Head(srv.queue).client,
                                                req |-> Head(srv.queue).req, pc |-> "read", tc |-> 0]}]
    /\ UNCHANGED <<vcall, vres, sv, cx, rep, probe_vars>>

\* tc = self.server.non_conformances.get("throttle_count", 0)
_throttle_check ==
    /\ srv.pc = "serving"
    /\ \E h \in srv.handlers :
          /\ h.pc = "read"
          /\ srv' = [srv EXCEPT !.handlers = (@ \ {h}) \cup
                        {[h EXCEPT !.pc = "gate", !.tc = srv.non_conformances.throttle_count]}]
    /\ UNCHANGED <<vcall, vres, sv, cx, rep, probe_vars>>

\* the rest of a handler: with tc > 0 the counter is written and 429 is sent,
\* otherwise the method's handler runs; the answer ends the handler
do_METHOD ==
    /\ srv.pc = "serving"
    /\ \E h \in srv.handlers :
          LET key == _parse_path(h.req.path)
              \* the throttle gate with the count the handler read
              gate == Handle(h.req, srv.stores, [srv.non_conformances EXCEPT !.throttle_count = h.tc],
                             srv.stale_snapshots, srv.uuid)
              \* the method's handler: it does not write the counter
              body == Handle(h.req, srv.stores, [srv.non_conformances EXCEPT !.throttle_count = 0],
                             srv.stale_snapshots, srv.uuid)
              Answered(o, nc) ==
                  [srv EXCEPT !.stores = o.stores, !.non_conformances = nc,
                              !.stale_snapshots = o.stale_snapshots, !.uuid = o.uuid,
                              !.handlers = @ \ {h}, !.waiting = @ \ {h.client},
                              !.answered = @ + 1,
                              !.throttled = IF o.resp.status_code = 429 THEN @ + 1 ELSE @,
                              !.last = [req |-> h.req, resp |-> o.resp, before |-> srv.stores,
                                        snap |-> srv.before_put],
                              !.before_put =
                                  IF h.req.method = "PUT" /\ o.resp.status_code = 200
                                  THEN (key :> srv.stores[key[1]][key[2]]) @@ @
                                  ELSE IF h.req.method = "GET" /\ key[2] # <<>>
                                          /\ o.resp.status_code = 200
                                  THEN [k \in DOMAIN @ \ {key} |-> @[k]]
                                  ELSE @]
          IN  \/ /\ h.pc = "gate" /\ h.tc > 0
                 /\ srv' = Answered(gate, gate.non_conformances)
              \/ /\ h.pc = "gate" /\ h.tc = 0
                 /\ srv' = [srv EXCEPT !.handlers = (@ \ {h}) \cup {[h EXCEPT !.pc = "body"]}]
              \/ /\ h.pc = "body"
                 /\ srv' = Answered(body, srv.non_conformances)
    /\ UNCHANGED <<vcall, vres, sv, cx, rep, probe_vars>>

SpecServer == SInit /\ [][client_request \/ serve_forever \/ _throttle_check \/ do_METHOD]_vars

----------------------------------------------------------------------------
(* The report (print_results).  A text is a sequence of tokens; a token    *)
(* in LowerCase is one that str.lower changes.  A result here carries its  *)
(* message, which is what the known issues are recognised by.              *)

MaxResults == 2

\* (priority, title, message_substring or None, phase_prefix or None), in priority order
_KNOWN_ISSUES ==
    <<[priority |-> "P1", title |-> "Wrong Content-Type on SCIM responses",
       msg_substr |-> <<"Content-Type should be application/scim+json">>, phase_prefix |-> <<>>],
      [priority |-> "P2", title |-> "Discovery endpoints not implemented",
       msg_substr |-> <<>>, phase_prefix |-> <<"Phase 1">>],
      [priority |-> "P3", title |-> "Missing meta timestamps on resource responses",
       msg_substr |-> <<"meta.created">>, phase_prefix |-> <<>>],
      [priority |-> "P4", title |-> "Missing Location header on 201 Created",
       msg_substr |-> <<"Location header should be present">>, phase_prefix |-> <<>>],
      [priority |-> "P5", title |-> "Missing status field in error response bodies",
       msg_substr |-> <<"missing required attribute 'status'">>, phase_prefix |-> <<>>]>>

\* the indices of the failures a known issue affects: those whose message holds
\* the issue's text, whatever the case, or whose phase starts with its prefix
Affected(issue, rs, failures) ==
    LET LowerCase ==
            ("Content-Type should be application/scim+json"
                :> "content-type should be application/scim+json")
            @@ ("Location header should be present" :> "location header should be present")
            @@ ("Missing " :> "missing ") @@ ("Meta.Created" :> "meta.created")
        lower(text) == [i \in DOMAIN text |->
                            IF text[i] \in DOMAIN LowerCase THEN LowerCase[text[i]] ELSE text[i]]
        In(sub, text) == \E i \in 1..Len(text) : lower(text)[i] = lower(sub)[1]
    IN  SelectSeq(failures,
                  LAMBDA i : IF issue.msg_substr # <<>> THEN In(issue.msg_substr, rs[i].message)
                             ELSE /\ rs[i].phase # <<>>
                                  /\ Head(rs[i].phase) = issue.phase_prefix[1])

_build_fix_summary(rs) ==
    LET failures == SelectSeq([i \in 1..Len(rs) |-> i],
                              LAMBDA i : rs[i].status \in {FAIL, ERROR})
        known == SelectSeq(_KNOWN_ISSUES, LAMBDA issue : Affected(issue, rs, failures) # <<>>)
        issues == [k \in 1..Len(known) |->
                      [priority |-> known[k].priority, title |-> <<known[k].title>>,
                       affected_tests |-> Len(Affected(known[k], rs, failures))]]
        unmatched == SelectSeq(failures, LAMBDA i :
                        \A k \in 1..Len(known) :
                            \A j \in 1..Len(Affected(known[k], rs, failures)) :
                                Affected(known[k], rs, failures)[j] # i)
    IN  IF unmatched # <<>>
        THEN Append(issues, [priority |-> "?",
                             title |-> <<ToString(Len(unmatched)),
                                         " failure(s) not matched to a known root cause">>,
                             affected_tests |-> Len(unmatched)])
        ELSE issues

\* the counts, the fix summary and the results
_print_json(rs) ==
    LET Count(status) == Len(SelectSeq(rs, LAMBDA r : r.status = status))
    IN  [summary |-> [total |-> Len(rs), passed |-> Count(PASS), failed |-> Count(FAIL),
                      warnings |-> Count(WARN), skipped |-> Count(SKIP), errors |-> Count(ERROR)],
         issues |-> _build_fix_summary(rs), results |-> rs]

\* what the terminal report holds after the result lines: the counts, the fix
\* summary and the verdict line
_print_terminal(rs) ==
    LET summary == _print_json(rs).summary
        failed == summary.failed
        errored == summary.errors
        issues == _build_fix_summary(rs)
        known == SelectSeq(issues, LAMBDA i : i.priority # "?")
        n_causes == Len(known)
        resolve == IF known # <<>> THEN <<" Resolve ", known[1].priority, " first.">> ELSE <<>>
    IN  [summary |-> summary, issues |-> issues,
         verdict |->
            IF failed = 0 /\ errored = 0 THEN <<"Result: All tests passed.">>
            ELSE IF issues # <<>>
            THEN <<"Result: ", ToString(n_causes),
                   IF n_causes = 1 THEN " root cause" ELSE " root causes",
                   " account for the failures.">> \o resolve
            ELSE <<"Result: ", ToString(failed + errored),
                   " failure(s) - review individual test output for details.">>]


\* print_results is about to be called with the results of a run
RInit ==
    /\ LET Result(status, message, phase) ==
               [name |-> "test", status |-> status, message |-> message, phase |-> phase]
           Phases == {<<"Phase 1", " - Discovery">>, <<"Phase 2", " - User CRUD Lifecycle">>}
           Given ==
               {Result(PASS, <<>>, ph) : ph \in Phases}
               \cup {Result(SKIP, <<"not supported">>, <<"Phase 2", " - User CRUD Lifecycle">>),
                     Result(WARN, <<"Content-Type should be application/scim+json">>,
                            <<"Phase 1", " - Discovery">>)}
               \cup {Result(st, m, ph) :
                        st \in {FAIL, ERROR}, ph \in Phases \cup {<<>>},
                        m \in {<<"boom">>, <<>>, <<"Missing ", "Meta.Created">>,
                               <<"Content-Type should be application/scim+json",
                                 " (got application/json)">>}}
       IN  \E rs \in UNION {[1..n -> Given] : n \in 0..MaxResults}, json_output \in BOOLEAN :
               rep = [pc |-> "called", results |-> rs, json_output |-> json_output,
                      printed |-> _print_json(<<>>)]
    /\ srv = [pc |-> "idle"]
    /\ cx = [pc |-> "idle"]
    /\ sv = [plan |-> <<>>, self |-> SCIMValidator, calls |-> <<>>]
    /\ vcall = IdleCall
    /\ vres = NoResult
    /\ ProbeIdle

print_results ==
    /\ rep.pc = "called"
    /\ rep' = [rep EXCEPT !.pc = "printed",
                          !.printed = IF rep.json_output THEN _print_json(rep.results)
                                      ELSE _print_terminal(rep.results)]
    /\ UNCHANGED <<vcall, vres, sv, cx, srv, probe_vars>>

SpecReport == RInit /\ [][print_results]_vars

----------------------------------------------------------------------------
(* Claims on the probe (Spec) *)

HasStatus(rs, statuses) == \E i \in 1..Len(rs) : rs[i].status \in statuses

\* C1: a run without consent does nothing but print the warning and return 1: no
\* client call, no HTTP exchange, no phase, no result, and the server's stores stay empty
C1_NoConsentNoTraffic ==
    (~opt.accept_side_effects /\ pc # "start") =>
        /\ pc = "done" /\ exit_code = 1 /\ printed = "warning"
        /\ attempts_total = 0 /\ cl = IdleClient /\ ~rsp.got
        /\ phase_no = 1 /\ results = <<>> /\ created_resources = <<>>
        /\ stores = EmptyStores(server_args.supported_resources)
        /\ non_conformances = server_args.non_conformances

C1_Witness ==
    /\ ~opt.accept_side_effects /\ pc = "done"
    /\ opt.resource_filter = <<"Agent">> /\ ~opt.strict /\ opt.skip_cleanup

\* C2: with consent, the exit code is 0 exactly when no result of the run, Cleanup
\* included, is FAIL or ERROR; WARN and SKIP results leave it at 0
C2_ExitCodeIffNoFailure ==
    (opt.accept_side_effects /\ pc = "done") =>
        /\ exit_code \in {0, 1}
        /\ exit_code = 0 <=> ~HasStatus(results, {FAIL, ERROR})

C2_Witness ==
    /\ opt.accept_side_effects /\ pc = "done" /\ exit_code = 0
    /\ HasStatus(results, {WARN}) /\ HasStatus(results, {SKIP})

\* a tracked resource is still in a store of the server
InStores(r) == \E e \in DOMAIN stores : r.id.t = "str" /\ r.id.v \in DOMAIN stores[e]

\* C3: a run with skip_cleanup = false that returns 0 leaves none of the resources it
\* ever appended to created_resources in the server's stores
C3_NothingLeftBehind ==
    (opt.accept_side_effects /\ pc = "done" /\ ~opt.skip_cleanup /\ exit_code = 0) =>
        \A r \in ever_created : ~InStores(r)

C3_Witness ==
    /\ pc = "done" /\ ~opt.skip_cleanup /\ exit_code = 0 /\ fault.kind = "none"
    /\ Cardinality(ever_created) = 4

\* C4 (as the specification states it): every lifecycle DELETE answered 204 takes the
\* id off created_resources, and cleanup never sends a DELETE for that id
C4_Delete204Untracks ==
    \A i \in 1..Len(deletes) :
        (deletes[i].by = "lifecycle" /\ deletes[i].status = 204) =>
            /\ \A j \in 1..Len(created_resources) : created_resources[j].id # deletes[i].id
            /\ \A j \in 1..Len(deletes) :
                  ~(deletes[j].by = "cleanup" /\ deletes[j].id = deletes[i].id)

\* C5 (as the specification states it): with consent no exception leaves run_probe,
\* and a run that has ended has printed its report and returned 0 or 1
C5_NoExceptionEscapes ==
    opt.accept_side_effects =>
        /\ pc # "crashed"
        /\ pc = "done" => printed = "report" /\ exit_code \in {0, 1}

\* C6: a request that finds the server answering 429 to its next n requests sleeps
\* min(n, 3) times, sends min(n + 1, 4) attempts, returns a response that is no 429
\* when n <= 3 and the fourth 429 when n >= 4, and sends the same request every time
C6_RetryPolicy ==
    (rsp.got /\ fault.kind = "none") =>
        /\ Len(cl.sleeps) = Min(cl.n0, 3)
        /\ Len(cl.sent) = Min(cl.n0 + 1, 4)
        /\ ~rsp.r.exc
        /\ cl.n0 <= 3 => rsp.r.status_code # 429
        /\ cl.n0 >= 4 => rsp.r.status_code = 429
        /\ \A i \in 1..Len(cl.sent) : cl.sent[i] = CurrentRequest

C6_Witness == rsp.got /\ fault.kind = "none" /\ cl.n0 > 4 /\ Len(cl.sent) = 4

\* a full run: consent, strict, no filter, the server with all four resource types
\* and no non-conformance, nothing between client and server
FullReferenceRun ==
    /\ opt.accept_side_effects /\ opt.strict /\ opt.resource_filter = <<>>
    /\ server_args.supported_resources = AllResources
    /\ server_args.non_conformances = NoKnobs
    /\ fault.kind = "none"

\* C10: a full run against the reference server has no FAIL and no ERROR result, at
\* least one PASS result, and returns 0
C10_ReferenceServerPasses ==
    (pc = "done" /\ FullReferenceRun) =>
        /\ ~HasStatus(results, {FAIL, ERROR})
        /\ HasStatus(results, {PASS})
        /\ exit_code = 0

C10_Witness ==
    /\ pc = "done" /\ FullReferenceRun /\ ~opt.skip_cleanup
    /\ opt.rapid_agent_count = MaxRapid /\ Len(results) > 40

----------------------------------------------------------------------------
(* Claims on the response validator (SpecValidator) *)

NoFailIn(errors) == \A i \in 1..Len(errors) : errors[i].severity # FAIL
OnlyWarnIn(errors) == errors # <<>> /\ \A i \in 1..Len(errors) : errors[i].severity = WARN
Returns == {r \in {vres.s, vres.c} : vres.done /\ ~r.raised}

\* C7: on every return path of the four entry points, in strict and in compat mode,
\* the returned ok is true exactly when the returned list holds no FAIL entry.
C7_OkIffNoFail == \A r \in Returns : r.ok = NoFailIn(r.errors)

\* a compat call that left by the early return for an empty body with one WARN, ok = true,
\* and a call that left by the early return for a missing schemas array
C7_Witness ==
    /\ vres.done /\ ~vres.c.raised
    /\ \/ vcall.fn = "error" /\ vcall.data = JNull /\ OnlyWarnIn(vres.c.errors) /\ vres.c.ok
       \/ vcall.fn = "resource" /\ vres.c.errors # <<>>
          /\ vres.c.errors[Len(vres.c.errors)].message = "schemas_missing" /\ ~vres.c.ok
          /\ Len(vres.c.errors) > 1 /\ vres.c.errors[1].severity = WARN

NineKinds == {"content_type", "etag_mismatch", "location_missing", "error_schema",
              "error_status_attr", "error_body_empty", "delete_body",
              "total_results_type", "pagination_type"}

\* the findings whose severity depends on the mode are exactly those of the kinds K:
\* WARN in compat and FAIL in strict; every other finding is FAIL in both modes
ModeDependentExactly(K) ==
    vres.done /\ ~vres.c.raised /\ ~vres.s.raised =>
        /\ \A i \in 1..Len(vres.c.errors) :
              (vres.c.errors[i].severity = WARN) <=> (vres.c.errors[i].message \in K)
        /\ \A i \in 1..Len(vres.s.errors) : vres.s.errors[i].severity = FAIL

\* C8 as stated: the mode-dependent findings are exactly the nine kinds listed.
C8_ExactlyNineKinds == ModeDependentExactly(NineKinds)

\* C8 amended: the mode-dependent findings are exactly the nine kinds and the mismatch
\* of the Location header with meta.location on 201.
C8_ExactlyTenKinds == ModeDependentExactly(NineKinds \cup {"location_mismatch"})

\* a compat call on a 201 whose Location header differs from meta.location: a WARN
C8_Witness ==
    /\ vres.done /\ vcall.fn = "resource" /\ ~vres.c.raised
    /\ \E i \in 1..Len(vres.c.errors) :
          /\ vres.c.errors[i].message = "location_mismatch"
          /\ vres.c.errors[i].severity = WARN /\ vres.s.errors[i].severity = FAIL

\* C9: a strict and a compat validator raise on the same inputs and otherwise return the
\* same findings in the same order, differing only where compat has WARN for strict's
\* FAIL; so ok in strict mode implies ok in compat mode.
C9_SameFindings ==
    vres.done =>
        /\ vres.s.raised = vres.c.raised
        /\ Len(vres.s.errors) = Len(vres.c.errors)
        /\ \A i \in 1..Len(vres.s.errors) :
              /\ vres.s.errors[i].message = vres.c.errors[i].message
              /\ vres.s.errors[i].path = vres.c.errors[i].path
              /\ \/ vres.s.errors[i].severity = vres.c.errors[i].severity
                 \/ vres.s.errors[i].severity = FAIL /\ vres.c.errors[i].severity = WARN
        /\ (vres.s.ok => vres.c.ok)

\* an input on which the two modes differ: strict rejects, compat accepts with a WARN
C9_Witness ==
    /\ vres.done /\ ~vres.s.raised /\ ~vres.s.ok /\ vres.c.ok
    /\ \E i \in 1..Len(vres.c.errors) :
          vres.c.errors[i].severity = WARN /\ vres.s.errors[i].severity = FAIL

\* the response C11 speaks of: status as expected, schemas present, id and the three
\* meta fields present, meta.resourceType the type validated for, no writeOnly attribute
ConformantResource ==
    LET meta == Get(vcall.data, "meta")
        schemas == Get(vcall.data, "schemas")
    IN  /\ vcall.fn = "resource" /\ vres.done
        /\ vcall.actual_status = vcall.expected_status
        /\ vcall.data.t = "dict" /\ schemas.t = "list" /\ schemas.v # <<>>
        /\ Has(vcall.data, "id") /\ ~Has(vcall.data, "password")
        /\ meta.t = "dict"
        /\ Has(meta, "resourceType") /\ Has(meta, "created") /\ Has(meta, "lastModified")
        /\ vcall.resource_type # <<>> => EqStr(Get(meta, "resourceType"), vcall.resource_type)

\* what the validator asks of such a response beyond that: schemas holds strings only,
\* meta.version is a string when present, and the headers, when passed, carry no
\* Content-Type other than application/scim+json, no ETag that differs from meta.version,
\* and on 201 a Location that is meta.location
ConsistentResource ==
    LET meta == Get(vcall.data, "meta")
        schemas == Get(vcall.data, "schemas")
        version == Get(meta, "version")
        ct == _header_value(vcall.headers, "Content-Type")
        etag == _header_value(vcall.headers, "ETag")
        loc_header == _header_value(vcall.headers, "Location")
    IN  /\ \A i \in 1..Len(schemas.v) : schemas.v[i].t = "str"
        /\ version.t \in {"null", "str"}
        /\ ct = <<>> \/ HasSub(ct, CtScim)
        /\ etag = <<>> \/ ~Truthy(version) \/ Strip(etag) = Strip(version.v)
        /\ (vcall.actual_status = 201 /\ DOMAIN vcall.headers # {}) =>
                /\ loc_header # <<>>
                /\ ~Truthy(Get(meta, "location")) \/ EqStr(Get(meta, "location"), loc_header)

BothOk == ~vres.s.raised /\ vres.s.ok /\ ~vres.c.raised /\ vres.c.ok

\* C11 as stated: a response with id, meta.resourceType, meta.created, meta.lastModified and
\* no writeOnly attribute passes validate_resource_response in strict and in compat mode,
\* whatever its headers and other fields.
C11_ConformantResourcePasses == ConformantResource => BothOk

\* C11 amended: such a response passes in both modes when, in addition, its schemas are
\* strings, meta.version is absent or a string, and the headers passed agree with it
\* (Content-Type application/scim+json, ETag equal to meta.version, Location on 201 equal
\* to meta.location).
C11_ConsistentResourcePasses == (ConformantResource /\ ConsistentResource) => BothOk

\* an Agent created with 201, all headers passed and agreeing, the expected type checked
C11_Witness ==
    /\ ConformantResource /\ ConsistentResource /\ BothOk
    /\ vcall.resource_type = <<"Agent">> /\ vcall.actual_status = 201
    /\ DOMAIN vcall.headers = {"Content-Type", "ETag", "Location"}
    /\ vres.s.errors = <<>>

----------------------------------------------------------------------------
(* Claims on the payload validator (SpecPayload) *)

\* the core URNs a document's schemas list names
CoreNamed(data) ==
    {urn \in {Urn.User, Urn.Group, Urn.Agent, Urn.AgenticApplication} :
        \E i \in 1..Len(Get(data, "schemas").v) : Get(data, "schemas").v[i] = JStr(urn)}

HasMessage(errors, first) == \E i \in 1..Len(errors) : Head(errors[i].message) = first

\* C12: full payload validation accepts a schemas list only if it names exactly one
\* of the four core URNs; a document that names none of them, or two or more of
\* them, is invalid with an 'Invalid schema URN' error
C12_ExactlyOneCoreUrn ==
    \A i \in 1..Len(sv.calls) :
        LET c == sv.calls[i]
            schemas == Get(c.data, "schemas")
        IN  (c.operation = "full" /\ schemas.t = "list" /\ schemas.v # <<>>) =>
                /\ (~c.raised /\ c.ok) => Cardinality(CoreNamed(c.data)) = 1
                /\ Cardinality(CoreNamed(c.data)) # 1 =>
                        /\ ~c.raised /\ ~c.ok
                        /\ HasMessage(c.returned, "Invalid schema URN. Must include '")

\* the conditions of a valid patch document, as the specification lists them
PatchConditions(data) ==
    LET schemas == Get(data, "schemas")
        operations == Get(data, "Operations")
        Is(op, name) == EqStr(Get(op, "op"), <<name>>)
    IN  /\ schemas.t = "list" /\ \E i \in 1..Len(schemas.v) : schemas.v[i] = JStr(Urn.PatchOp)
        /\ Has(data, "Operations") /\ operations.t = "list" /\ operations.v # <<>>
        /\ \A i \in 1..Len(operations.v) :
              LET op == operations.v[i]
              IN  /\ op.t = "dict"
                  /\ Is(op, "add") \/ Is(op, "replace") \/ Is(op, "remove")
                  /\ Is(op, "remove") => Has(op, "path")
                  /\ (Is(op, "add") \/ Is(op, "replace")) => Has(op, "value")
        /\ \A i, j \in 1..Len(operations.v) :
              (i < j /\ operations.v[i].t = "dict" /\ operations.v[j].t = "dict"
                     /\ Get(operations.v[i], "path").t = "str")
                    => Get(operations.v[i], "path") # Get(operations.v[j], "path")

\* C13: patch validation returns ok = true exactly when the conditions hold; any
\* violation gives ok = false with at least one error, and an empty Operations
\* list is always invalid
C13_PatchOkExactlyWhen ==
    \A i \in 1..Len(sv.calls) :
        LET c == sv.calls[i]
        IN  c.operation = "patch" =>
                /\ ~c.raised
                /\ c.ok <=> PatchConditions(c.data)
                /\ ~c.ok => c.returned # <<>>
                /\ Get(c.data, "Operations") = JList(<<>>) => ~c.ok

\* C14: each call on an instance returns what a new validator returns for the
\* same document, a list already returned is not changed by the calls after it,
\* and the document is as it was
C14_NoCrossCallState ==
    \A i \in 1..Len(sv.calls) :
        LET c == sv.calls[i]
            fresh == validate(SCIMValidator, c.data, c.operation)
        IN  /\ c.raised = fresh.raised /\ c.ok = fresh.ok
            /\ c.returned = fresh.self.heap[fresh.errors]
            /\ sv.self.heap[c.errors] = c.returned
            /\ c.after = c.data

C14_Witness ==
    /\ Len(sv.calls) = 3
    /\ sv.calls[1].operation = "patch" /\ ~sv.calls[1].raised /\ Len(sv.calls[1].returned) = 2
    /\ sv.calls[2].operation = "full" /\ sv.calls[2].ok /\ sv.calls[2].returned = <<>>
    /\ ~sv.calls[3].ok /\ sv.calls[3].returned = sv.calls[1].returned
    /\ sv.calls[3].errors # sv.calls[1].errors

----------------------------------------------------------------------------
(* Claims on the probe command and the transport (SpecCli) *)

\* C15: with a CA bundle and tls_no_verify both set, verification stays on and
\* uses the CA bundle; and the requests and the urllib back end verify in the
\* same way for every combination of tls_no_verify, ca_bundle and proxy
C15_CaBundleWinsOnBothBackEnds ==
    cx.pc = "sent" =>
        /\ (cx.client.ca_bundle # <<>> /\ cx.client.tls_no_verify) => cx.sent.verify = cx.client.ca_bundle
        /\ _request_with_requests(cx.client).verify = _request_with_urllib(cx.client).verify

\* C16: the options of the probe command reach the run: the proxy and the CA
\* bundle of the client are the values given for --proxy and --ca-bundle, with
\* Click and without it
C16_OptionsReachTheClient ==
    (cx.pc \in {"client", "sent"} /\ cx.args # <<>>) =>
        /\ cx.client.proxy = _get_flag_value(cx.args, "--proxy")
        /\ cx.client.ca_bundle = _get_flag_value(cx.args, "--ca-bundle")
        /\ cx.client.token = _get_flag_value(cx.args, "--token")
        /\ cx.client.tls_no_verify = (\E i \in 1..Len(cx.args) : cx.args[i] = "--tls-no-verify")
        /\ cx.pc = "sent" => cx.sent.proxies = _get_flag_value(cx.args, "--proxy")

----------------------------------------------------------------------------
(* Claims on the probe's search phase and on lifecycle creation (Spec) *)

\* C17: a list GET with count=0 on the reference server returns a ListResponse
\* whose Resources is empty whatever the store holds, and the count=0 check of
\* the probe reports PASS only for such a response
C17_CountZeroIsEmpty ==
    /\ []((pc = "search_count0" /\ "Users" \in DOMAIN stores) =>
            LET req == Request("GET", Path("/Users", <<>>, "count=0"), <<>>, JNull)
                resp == do_GET(req, stores, non_conformances, stale_snapshots, uuid).resp
            IN  resp.status_code = 200 /\ Get(resp.body.j, "Resources") = JList(<<>>))
    /\ [][(search_count0 /\ results'[Len(results')].status = PASS) =>
            (rsp.r.status_code = 200 /\ Get(Data(rsp.r), "Resources") = JList(<<>>))]_vars

\* a response with a status of the 2xx class
Is2xx(resp) == ~resp.exc /\ resp.status_code \in 200..299

\* C18: a first lifecycle POST answered 500 is retried exactly once, unchanged,
\* after a sleep; a retry answered 2xx records one WARN and the lifecycle goes on
\* with the id of the retry response; the application/json POST is sent only
\* after a failed retry and once, so the POSTs are original, retry, diagnostic
C18_RetryThenDiagnose ==
    [][LET sent == cl.sent[Len(cl.sent)]
           data == Data(rsp.r)
       IN  /\ (crud_post /\ ~rsp.r.exc /\ rsp.r.status_code = 500) =>
                  /\ pc' = "crud_retry" /\ lc'.slept = <<2>>
                  /\ CurrentRequest' = sent
           /\ (pc = "crud_retry" /\ rsp.got) => Len(cl.sent) = 1
           /\ (_retry_post_on_500 /\ Is2xx(rsp.r) /\ pc' # "crashed") =>
                  /\ Len(results') > Len(results)
                  /\ results'[Len(results) + 1] = ProbeResult("POST " \o lc.endpoint, WARN, lc.phase)
                  /\ (data.t = "dict" /\ KeyIn("id", data)) =>
                        /\ pc' = "crud_get" /\ lc'.resource_id = data.v["id"]
                        /\ CurrentRequest'.path = Path(lc.endpoint, IdText(data.v["id"]), "")
           /\ (_retry_post_on_500 /\ ~Is2xx(rsp.r)) =>
                  /\ pc' = "crud_diag" /\ results' = results
                  /\ CurrentRequest' = [sent EXCEPT !.headers["Content-Type"] = CtJson]
           /\ (pc' = "crud_retry" /\ pc # pc') => pc = "crud_post"
           /\ (pc' = "crud_diag" /\ pc # pc') => (pc = "crud_retry" /\ ~Is2xx(rsp.r))
           /\ (pc = "crud_diag" /\ rsp.got) => Len(cl.sent) = 1
           /\ (pc = "crud_diag" /\ pc # pc') => pc' \notin {"crud_post", "crud_retry"}
      ]_vars

\* C19: when the application/json POST is answered with any 2xx status, the
\* lifecycle records the Content-Type FAIL and a SKIP and sends no further request
\* for the resource type, except that the resource the diagnosis created is deleted
\* at once; when that DELETE is not answered 204 or raises, its id is appended to
\* created_resources
C19_DiagnosisHit ==
    [][LET body == Data(rsp.r)
           entry == [endpoint |-> lc.endpoint, id |-> lc.diag_id]
       IN  /\ (_diagnose_content_type_rejection /\ Is2xx(rsp.r)) =>
                  IF body.t = "dict" /\ KeyIn("id", body)
                  THEN /\ pc' = "crud_diag_delete" /\ results' = results
                       /\ CurrentRequest' = Request("DELETE", Path(lc.endpoint, IdText(body.v["id"]), ""),
                                                    _build_headers(<<>>), JNull)
                  ELSE /\ pc' = "phase" /\ lc'.hint
                       /\ results' = results \o HintResults
           /\ diagnose_delete =>
                  /\ pc' = "phase" /\ lc'.hint
                  /\ results' = results \o HintResults
                  /\ created_resources' = IF rsp.r.exc \/ rsp.r.status_code # 204
                                          THEN Append(created_resources, entry)
                                          ELSE created_resources
      ]_vars

\* C20: an entry is appended to created_resources only after a POST answered with
\* a success status; a POST answered 4xx or 5xx never adds one, whatever its body.
\* The entry comes from the response in hand, from the first response when the
\* diagnosis gave no hint, or from a 201 or a hinting answer deleted without a 204
C20_TrackedOnlyOnSuccess ==
    [][Len(created_resources') > Len(created_resources) =>
          \/ pc \in {"crud_post", "crud_retry"} /\ Is2xx(rsp.r)
          \/ pc = "crud_diag" /\ Is2xx(lc.resp)
          \/ pc = "crud_diag_delete" /\ lc.hint'
          \/ pc = "rapid_delete"
      ]_vars

\* C21: at the end of a run with skip_cleanup = false, for every POST of the run
\* that was answered 2xx with an id the probe has sent at least one DELETE for
\* that id
C21_EveryCreatedIdGetsADelete ==
    (pc = "done" /\ ~opt.skip_cleanup) =>
        \A p \in posted :
            \E i \in 1..Len(deletes) : deletes[i].endpoint = p.endpoint /\ deletes[i].id = p.id

\* C22: in the Agent rapid lifecycle, an agent that was created and whose DELETE
\* failed, by a status other than 204 or by a transport error, is appended to
\* created_resources, so that the final cleanup attempts to delete it
C22_RapidFailedDeleteTracked ==
    [][(rapid_delete /\ (rsp.r.exc \/ rsp.r.status_code # 204)) =>
          created_resources' = Append(created_resources, [endpoint |-> "/Agents", id |-> rp.agent_id])
      ]_vars

\* the DELETEs of the final cleanup, in the order they were sent
CleanupDeletes == SelectSeq(deletes, LAMBDA d : d.by = "cleanup")

\* cleanup runs after the seven phases and not at all with skip_cleanup; when it is
\* over there is one DELETE per entry of created_resources, last entry first, and
\* the last results are one per DELETE, under phase "Cleanup", with the status
\* Outcome gives for the DELETE's answer
CleanupDone(Outcome(_)) ==
    LET n == Len(created_resources)
        first == Len(results) - n
    IN  /\ opt.skip_cleanup => CleanupDeletes = <<>>
        /\ pc = "cleanup" => (phase_no = 9 /\ ~opt.skip_cleanup)
        /\ (pc \in {"report", "done"} /\ opt.accept_side_effects /\ ~opt.skip_cleanup) =>
              /\ Len(CleanupDeletes) = n
              /\ first >= 0
              /\ \A i \in 1..n :
                    LET entry == created_resources[n + 1 - i]
                    IN  /\ CleanupDeletes[i].endpoint = entry.endpoint
                        /\ CleanupDeletes[i].id = entry.id
                        /\ results[first + i] =
                              ProbeResult("DELETE " \o entry.endpoint \o "/{rid}",
                                          Outcome(CleanupDeletes[i].status), "Cleanup")
              /\ \A j \in 1..first : results[j].phase # "Cleanup"

\* C23 (as the claim states it): each cleanup DELETE adds one result, PASS on 204
\* and FAIL otherwise
C23_CleanupPassOrFail == CleanupDone(LAMBDA status : IF status = 204 THEN PASS ELSE FAIL)

\* C23 (amended): when skip_cleanup is false, cleanup runs after the seven phases
\* and sends one DELETE per entry of created_resources in reverse order of
\* appending, each adding one result under phase "Cleanup": PASS on 204, FAIL on
\* another status, ERROR when the DELETE raised; a failed DELETE does not stop the
\* others; with skip_cleanup no cleanup DELETE is sent
C23_CleanupOnePerEntry ==
    CleanupDone(LAMBDA status : IF status = 204 THEN PASS ELSE IF status = 0 THEN ERROR ELSE FAIL)

C23_Witness ==
    /\ pc = "done" /\ Len(CleanupDeletes) = 2
    /\ CleanupDeletes[1].status = 0 /\ CleanupDeletes[2].status = 204

\* the probe handles a request that ended in a transport exception
HandlesException == rsp.got /\ rsp.r.exc /\ ~rsp'.got

\* the results a step has added
Added == SubSeq(results', Len(results) + 1, Len(results'))

\* the steps whose try block swallows or only counts an exception: the discovery of
\* the resource types, the 500 retry, the diagnosis and the rapid lifecycle
SwallowingSteps ==
    {"discover", "crud_retry", "crud_diag", "crud_diag_delete", "rapid_post", "rapid_delete"}

\* every phase has left at least one result
AllPhasesReported ==
    \A ph \in {"Phase 1 - Discovery", "Phase 2 - User CRUD Lifecycle", "Phase 3 - Group CRUD Lifecycle",
               "Phase 4 - Agent CRUD Lifecycle", "Phase 5 - AgenticApplication CRUD Lifecycle",
               "Phase 5a - Agent Rapid Lifecycle", "Phase 6 - Search", "Phase 7 - Error Handling"} :
        \E i \in 1..Len(results) : results[i].phase = ph

OptionalTypes ==
    {[resource_type |-> "Agent", endpoint |-> "/Agents",
      phases |-> {"Phase 4 - Agent CRUD Lifecycle", "Phase 5a - Agent Rapid Lifecycle"}],
     [resource_type |-> "AgenticApplication", endpoint |-> "/AgenticApplications",
      phases |-> {"Phase 5 - AgenticApplication CRUD Lifecycle"}]}

\* C25: in a run where /ResourceTypes did not advertise Agent no request is ever
\* sent to /Agents, also with resource_filter = Agent, and Phase 4 and Phase 5a
\* contribute exactly one SKIP result each; the same holds for AgenticApplication,
\* /AgenticApplications and Phase 5
C25_UnadvertisedNeverRequested ==
    \A t \in OptionalTypes :
        (phase_no >= 2 /\ <<t.resource_type>> \notin supported) =>
            /\ pc \in RequestPcs => CurrentRequest.path.endpoint # t.endpoint
            /\ \A i \in 1..Len(deletes) : deletes[i].endpoint # t.endpoint
            /\ \A p \in posted : p.endpoint # t.endpoint
            /\ pc = "done" =>
                  \A ph \in t.phases :
                      /\ Cardinality({i \in 1..Len(results) : results[i].phase = ph}) = 1
                      /\ \A i \in 1..Len(results) : results[i].phase = ph => results[i].status = SKIP

C25_Witness ==
    /\ pc = "done" /\ opt.resource_filter = <<"Agent">>
    /\ <<"Agent">> \notin supported /\ <<"AgenticApplication">> \notin supported
    /\ fault.kind = "none" /\ opt.accept_side_effects

----------------------------------------------------------------------------
(* Further claims on the response validator (SpecValidator) *)

\* C26: validate_resource_response on a resource whose meta.version is present
\* and not a string returns (false, errors) with a FAIL finding for
\* meta.version, also when the response carries an ETag header, and the call
\* does not raise.  The resources considered are those the validator reads up to
\* meta: the status is the expected one and schemas is a non-empty list of strings.
C26_NonStringVersionReported ==
    LET meta == Get(vcall.data, "meta")
        version == Get(meta, "version")
        schemas == Get(vcall.data, "schemas")
    IN  (/\ vres.done /\ vcall.fn = "resource"
         /\ vcall.actual_status = vcall.expected_status
         /\ vcall.data.t = "dict" /\ meta.t = "dict" /\ version.t \notin {"null", "str"}
         /\ schemas.t = "list" /\ Truthy(schemas)
         /\ \A i \in 1..Len(schemas.v) : schemas.v[i].t = "str") =>
            \A r \in {vres.s, vres.c} :
                /\ ~r.raised /\ ~r.ok
                /\ \E i \in 1..Len(r.errors) :
                      r.errors[i].path = "meta.version" /\ r.errors[i].severity = FAIL

----------------------------------------------------------------------------
(* Further claims on the payload validator (SpecPayload) *)

\* C27: a full validation reports an error for every attribute that the schema
\* declares complex and not multiValued (User name, the enterprise manager) and
\* that the document gives with a value that is no mapping: the call returns
\* not valid and one of its errors has the attribute's path.
C27_NonMappingComplexReported ==
    \A i \in 1..Len(sv.calls) :
        LET c == sv.calls[i]
            schemas == Get(c.data, "schemas")
            Resource == {Urn.User, Urn.Group, Urn.Agent, Urn.AgenticApplication}
        IN  (/\ c.operation = "full" /\ ~c.raised /\ schemas.t = "list"
             /\ \E n \in 1..Len(schemas.v) : schemas.v[n].v \in Resource) =>
                \A n \in 1..Len(schemas.v) :
                    LET urn == schemas.v[n].v
                        ext == IF urn = Urn.Enterprise THEN Get(c.data, urn[1]) ELSE c.data
                        attrs == get_schema(schemas.v[n]).attributes
                    IN  \A k \in 1..Len(attrs) :
                            (/\ attrs[k].type = "complex" /\ ~attrs[k].multiValued
                             /\ ext.t = "dict" /\ Has(ext, attrs[k].name)
                             /\ ext.v[attrs[k].name].t # "dict") =>
                                /\ ~c.ok
                                /\ \E e \in 1..Len(c.returned) :
                                      c.returned[e].path =
                                          (IF urn = Urn.Enterprise THEN urn \o <<".">> ELSE <<>>)
                                              \o <<attrs[k].name>>

----------------------------------------------------------------------------
(* Claims on the reference server (SpecServer) *)

\* C28: a GET of resource r that is answered 200 returns, with stale_after_put
\* set and when it is the first GET of r answered since a PUT to r, the data r
\* held immediately before that PUT; every other GET of r returns the data r
\* holds (without the knob: always, so after a PUT the PUT data).  A list GET
\* returns the data the resources hold, and neither it nor a GET of another
\* resource uses up the snapshot of r.
C28_StaleOnceAfterPut ==
    LET req == srv.last.req
        key == _parse_path(req.path)
        data == Data(srv.last.resp)
        Holds(d, expected) == d.t = "dict" /\ Obj(DOMAIN expected.v, d.v) = expected.v
        current == srv.last.before[key[1]]
    IN  (srv.pc = "serving" /\ req.method = "GET" /\ srv.last.resp.status_code = 200) =>
            IF key[2] # <<>>
            THEN Holds(data, IF srv.args.stale_after_put /\ key \in DOMAIN srv.last.snap
                             THEN srv.last.snap[key] ELSE current[key[2]])
            ELSE /\ Len(Get(data, "Resources").v) = Cardinality(DOMAIN current)
                 /\ \A i \in 1..Len(Get(data, "Resources").v) :
                       \E rid \in DOMAIN current : 
                          /\ Get(Get(data, "Resources").v[i], "id") = JStr(rid)
                          /\ Holds(Get(data, "Resources").v[i], current[rid])

\* a first GET after a PUT that was answered with the data before the PUT, which
\* is not the data the resource holds, on a server that holds a second resource
C28_Witness ==
    LET key == _parse_path(srv.last.req.path)
    IN  /\ srv.pc = "serving" /\ srv.last.req.method = "GET" /\ srv.last.resp.status_code = 200
        /\ key \in DOMAIN srv.last.snap
        /\ srv.last.snap[key] # srv.last.before[key[1]][key[2]]
        /\ Get(Data(srv.last.resp), "userName") = Get(srv.last.snap[key], "userName")
        /\ Cardinality(DOMAIN srv.stores["Users"]) = 2

\* C29: handlers never interleave: at most one handler is between its first
\* and its last step.  Of the requests answered so far, exactly min(n, answered)
\* were answered 429, for n the throttle_count the server was started with; every
\* 429 took one from throttle_count, which is never below 0; and a request
\* answered 429 left the stores and the snapshots as they were.
C29_HandlersSerial ==
    srv.pc = "serving" =>
        /\ Cardinality(srv.handlers) <= 1
        /\ srv.throttled = (IF srv.args.throttle_count <= srv.answered
                            THEN srv.args.throttle_count ELSE srv.answered)
        /\ srv.non_conformances.throttle_count = srv.args.throttle_count - srv.throttled
        /\ srv.non_conformances.throttle_count >= 0
        /\ (srv.last.resp.status_code = 429 /\ srv.handlers = {}) => srv.stores = srv.last.before

\* a handler that has read a positive count while the request of another client
\* waits in the queue, after a first request was answered 429
C29_Witness ==
    /\ srv.pc = "serving" /\ srv.queue # <<>> /\ srv.throttled = 1
    /\ \E h \in srv.handlers : h.pc = "gate" /\ h.tc = 1

----------------------------------------------------------------------------
(* Claims on the report (SpecReport) *)

\* C30: the verdict line of the terminal report is the all-pass line when no
\* result is FAIL or ERROR; when some failure matches a known pattern it is the
\* root-causes line with the number of known patterns that at least one failure
\* matches, naming the first of them in priority order; and when there are
\* failures and none matches a known pattern it is the unclassified-failure line
\* with the number of failures.
C30_VerdictLine ==
    LET rs == rep.results
        failures == SelectSeq([i \in 1..Len(rs) |-> i],
                              LAMBDA i : rs[i].status \in {FAIL, ERROR})
        matched == SelectSeq(_KNOWN_ISSUES, LAMBDA issue : Affected(issue, rs, failures) # <<>>)
        N == Len(matched)
    IN  (rep.pc = "printed" /\ ~rep.json_output) =>
            rep.printed.verdict =
                IF failures = <<>> THEN <<"Result: All tests passed.">>
                ELSE IF matched # <<>>
                THEN <<"Result: ", ToString(N), IF N = 1 THEN " root cause" ELSE " root causes",
                       " account for the failures.", " Resolve ", matched[1].priority, " first.">>
                ELSE <<"Result: ", ToString(Len(failures)),
                       " failure(s) - review individual test output for details.">>

====
